---- MODULE Spec2Model ----
(***************************************************************************)
(* Model of PlumeImpactor's trust pipeline: the GrandSlam login state      *)
(* machine (crates/grand_slam/src/auth), driven by                         *)
(* Account::login_with_anisette, and the desktop shell's login thread and  *)
(* message handler (apps/plumeimpactor/src/frame.rs, handlers.rs).         *)
(*                                                                         *)
(* The authentication server is the environment: every response it can     *)
(* send is drawn from a small set that covers each branch of the code     *)
(* that reads it.  A Rust panic (unwrap/expect on a missing value) is an   *)
(* outcome of its own, "Panic": the thread that runs the call dies.        *)
(***************************************************************************)
EXTENDS Integers, Sequences, FiniteSets, TLC

\* ------------------------------------------------------------------ bounds
\* Password rounds (login_email_pass calls) one login may run.
MaxRounds == 2

\* Certificates the team holds on the portal before the first call of
\* CertificateIdentity::new.
MaxCerts == 2

\* Calls of CertificateIdentity::new for one account, one after another.
MaxCalls == 2

\* Directories in a package under its root bundle.
MaxEntries == 3

\* Characters of a bundle identifier in an Info.plist.
MaxIdLen == 3

\* Provisioning profiles supplied to a signer.
MaxProfiles == 2

\* Bundles nested in the root bundle of a package that is registered.
MaxSubBundles == 2

\* Capabilities in the catalog the portal returns.
MaxCatalog == 2

\* Devices that may be plugged in.
MaxDevices == 4

\* Messages sent to the UI.
MaxSent == 11

\* Messages one call of process_messages handles at most.
BatchSize == 10

\* ------------------------------------------------------- program constants
\* The phone id the driving loop passes to send_sms_2fa_to_devices.
SmsPhoneId == 1

\* The result code the portal gives a CSR when the team's certificate
\* quota is used up.
QuotaExceeded == 7460

\* ------------------------------------------------------------- LoginState
NoBody == [phone |-> 0, mode |-> "", code |-> ""]

\* One value of enum LoginState: its variant, the String of NeedsExtraStep
\* and the VerifyBody of NeedsSMS2FAVerification.
LS(tag, step, body) == [tag |-> tag, step |-> step, body |-> body]

LoggedIn == LS("LoggedIn", "", NoBody)
NeedsDevice2FA == LS("NeedsDevice2FA", "", NoBody)
Needs2FAVerification == LS("Needs2FAVerification", "", NoBody)
NeedsSMS2FA == LS("NeedsSMS2FA", "", NoBody)
NeedsSMS2FAVerification(body) == LS("NeedsSMS2FAVerification", "", body)
NeedsExtraStep(step) == LS("NeedsExtraStep", step, NoBody)
NeedsLogin == LS("NeedsLogin", "", NoBody)
\* `response` before the first password round has produced a state.
NoState == LS("None", "", NoBody)

\* VerifyBody { phone_number: PhoneNumber { id }, mode, security_code }
VerifyBody(phone, mode, code) == [phone |-> phone, mode |-> mode, code |-> code]

\* ------------------------------------------------------------------ Error
\* One value of enum Error: the variant, the i64 of AuthSrpWithMessage, and
\* the String (a sequence of the pieces format! joins; ExtraStep's tag).
Error(type, code, msg) == [type |-> type, code |-> code, msg |-> msg]

AuthSrpWithMessage(code, msg) == Error("AuthSrpWithMessage", code, msg)
AuthSrp == Error("AuthSrp", 0, <<>>)
ExtraStep(step) == Error("ExtraStep", 0, <<step>>)
Bad2faCode == Error("Bad2faCode", 0, <<>>)
ParseError == Error("Parse", 0, <<>>)
PlistError == Error("Plist", 0, <<>>)
ReqwestError == Error("Reqwest", 0, <<>>)
DeveloperSession(code, msg) == Error("DeveloperSession", code, <<msg>>)
DeveloperSessionRequestFailed == Error("DeveloperSessionRequestFailed", 0, <<>>)
SerdeJsonError == Error("SerdeJson", 0, <<>>)
NoError == Error("", 0, <<>>)

\* Result<LoginState, Error>, or the panic that unwinds the calling thread.
Ok(state) == [kind |-> "Ok", state |-> state, err |-> NoError]
Err(e) == [kind |-> "Err", state |-> NoState, err |-> e]
Panic == [kind |-> "Panic", state |-> NoState, err |-> NoError]
Pending == [kind |-> "None", state |-> NoState, err |-> NoError]

\* ------------------------------------------------------------ Account.spd
\* Option<plist::Dictionary>: `some` is the Option; gen names the password
\* round that derived the dictionary; t is the shape of its "t" entry
\* ("absent", "notdict", "nopet": a dictionary without a usable
\* com.apple.gs.idms.pet token, "pet"); ids says that "adsid" and
\* "GsIdmsToken" (and the key material "sk", "c") are present and typed.
NoSpd == [some |-> FALSE, gen |-> 0, t |-> "absent", ids |-> FALSE]

SomeSpd(gen, t, ids) == [some |-> TRUE, gen |-> gen, t |-> t, ids |-> ids]

TShapes == {"absent", "notdict", "nopet", "pet"}

\* --------------------------------------------------------------- requests
\* One request sent to the server: the operation (or endpoint), and for the
\* two-factor requests the phone id and the security code they carry.
Req(op, phone, code) == [op |-> op, phone |-> phone, code |-> code]

\* ------------------------------------------------------ server responses
\* A response as the code reads it.  net: the HTTP exchange succeeded;
\* plist: the body parses as a plist dictionary; Response: the shape of its
\* "Response" entry; StatusDict: a "Status" dictionary is present (the place
\* check_error then reads); hasEc/ec, hasEm/em: "ec" is a signed integer,
\* "em" is a string, at that place; fields: the init round's s/B/i/c; m2:
\* the server proof; spdData: the encrypted session payload; auKind/au:
\* Status.au; t, ids: the decrypted payload; status: the HTTP status; et:
\* the encrypted app token; services: the services with a token in the
\* decrypted app-token payload; meta, resultCode, hasString, resultString:
\* the legacy portal reply's ResponseMeta; errors: the JSON:API reply's
\* "errors" entry (absent, not an array, or the array with its items).
NoErrors == [kind |-> "absent", items |-> <<>>]

R0 ==
    [kind |-> "none", net |-> "ok", plist |-> TRUE, Response |-> "dict",
     StatusDict |-> TRUE, hasEc |-> TRUE, ec |-> 0, hasEm |-> FALSE, em |-> "",
     fields |-> "ok", m2 |-> "ok", spdData |-> "ok", auKind |-> "absent",
     au |-> "", t |-> "absent", ids |-> TRUE, status |-> 200, et |-> "ok",
     services |-> {"com.apple.gs.xcode.auth"}, meta |-> TRUE, resultCode |-> 0,
     hasString |-> FALSE, resultString |-> "", errors |-> NoErrors]

\* The (ec, em) pairs of the error replies drawn.
ErrReplies ==
    { [ec |-> -20101, em |-> "Invalid credentials"], [ec |-> -22406, em |-> "Locked"] }
AuStrings == {"", "trustedDeviceSecondaryAuth", "secondaryAuth", "repair"}
HttpStatuses == {200, 204, 401}
Codes == {"123456", "000000"}

\* Responses that fail before any field is read.
BrokenEnvelopes(kind) ==
    { [R0 EXCEPT !.kind = kind, !.net = "err"],
      [R0 EXCEPT !.kind = kind, !.plist = FALSE],
      [R0 EXCEPT !.kind = kind, !.Response = "missing"],
      [R0 EXCEPT !.kind = kind, !.Response = "nondict"] }

\* Responses whose error code is missing, or nonzero without or with its
\* message, read from the Status dictionary or from the top level.
FailedEnvelopes(kind) ==
    { [R0 EXCEPT !.kind = kind, !.StatusDict = sd, !.hasEc = FALSE] : sd \in BOOLEAN }
    \cup { [R0 EXCEPT !.kind = kind, !.ec = e.ec] : e \in {e \in ErrReplies : e.em = "Locked"} }
    \cup { [R0 EXCEPT !.kind = kind, !.StatusDict = sd, !.ec = e.ec,
                      !.hasEm = TRUE, !.em = e.em] :
              sd \in BOOLEAN, e \in ErrReplies }

InitResponses ==
    BrokenEnvelopes("init") \cup FailedEnvelopes("init")
    \cup { [R0 EXCEPT !.kind = "init", !.StatusDict = sd, !.fields = f] :
              sd \in BOOLEAN, f \in {"ok", "malformed"} }

\* Decrypted session payloads: each shape of "t", and one without the
\* identity entries.
Payloads ==
    { [t |-> t, ids |-> TRUE] : t \in TShapes } \cup { [t |-> "absent", ids |-> FALSE] }

\* The payloads drawn with a marker: every one with the marker whose arm
\* reads "t" (get_pet), else those that differ in the identity entries.
PayloadsFor(a) ==
    IF a = "repair" THEN Payloads
    ELSE IF a = "" THEN { p \in Payloads : p.t \in {"absent", "pet"} /\ p.ids }
    ELSE { p \in Payloads : p.t = "absent" }

CompleteResponses ==
    BrokenEnvelopes("complete") \cup FailedEnvelopes("complete")
    \cup { [R0 EXCEPT !.kind = "complete", !.m2 = m] : m \in {"missing", "mismatch"} }
    \cup { [R0 EXCEPT !.kind = "complete", !.spdData = s] :
              s \in {"missing", "undecryptable"} }
    \cup { [R0 EXCEPT !.kind = "complete", !.StatusDict = FALSE] }
    \cup { [R0 EXCEPT !.kind = "complete", !.auKind = "absent", !.t = p.t,
                      !.ids = p.ids] :
              p \in PayloadsFor("none") }
    \cup { [R0 EXCEPT !.kind = "complete", !.auKind = "nonstring"] }
    \cup UNION { { [R0 EXCEPT !.kind = "complete", !.auKind = "string", !.au = a,
                              !.t = p.t, !.ids = p.ids] : p \in PayloadsFor(a) } :
                  a \in AuStrings }

\* Responses of the plain HTTP two-factor endpoints: only the status is read.
HttpResponses ==
    { [R0 EXCEPT !.kind = "http", !.net = "err"] }
    \cup { [R0 EXCEPT !.kind = "http", !.status = s] : s \in HttpStatuses }

\* Responses of GsService2/validate: a plist read by check_error directly.
ValidateResponses ==
    { [R0 EXCEPT !.kind = "validate", !.net = "err"],
      [R0 EXCEPT !.kind = "validate", !.plist = FALSE],
      [R0 EXCEPT !.kind = "validate"] }
    \cup FailedEnvelopes("validate")

\* The service every portal request asks a token for, and another service.
AppName == "com.apple.gs.xcode.auth"
OtherService == "com.apple.gs.other.auth"

\* Responses to the "apptokens" request: each shape of the encrypted token
\* "et" (intact; absent; shorter than header, IV and tag; another header;
\* an altered ciphertext or tag byte; a payload that is no plist with a "t"
\* dictionary; a service entry without a "token" string), and intact
\* payloads that hold other services' tokens.
AppTokenResponses ==
    BrokenEnvelopes("apptokens") \cup FailedEnvelopes("apptokens")
    \cup { [R0 EXCEPT !.kind = "apptokens", !.et = e] :
              e \in {"ok", "missing", "short", "badheader", "tampered", "tamperedtag",
                     "malformed", "notoken"} }
    \cup { [R0 EXCEPT !.kind = "apptokens", !.services = sv] :
              sv \in {{OtherService}, {AppName, OtherService}} }

\* Responses of the developer portal: the body parses or it does not.
PortalResponses ==
    { [R0 EXCEPT !.kind = "portal", !.net = "err"],
      [R0 EXCEPT !.kind = "portal", !.plist = FALSE],
      [R0 EXCEPT !.kind = "portal"] }

\* ------------------------------------------------- auth/account/mod.rs
Unit == Ok(NoState)

parse_response(r) ==
    IF r.net = "err" THEN Err(ReqwestError)
    ELSE IF ~r.plist THEN Err(PlistError)
    ELSE IF r.Response = "missing" THEN Panic
    ELSE IF r.Response = "nondict" THEN Err(ParseError)
    ELSE Unit

\* A plausible bug: the error code is dropped from the error.
check_error_no_code(r) ==
    IF ~r.hasEc THEN Panic
    ELSE IF r.ec # 0
         THEN IF r.hasEm THEN Err(AuthSrpWithMessage(0, <<r.em>>)) ELSE Panic
         ELSE Unit

check_error(r) ==
    IF ~r.hasEc THEN Panic
    ELSE IF r.ec # 0
         THEN IF r.hasEm THEN Err(AuthSrpWithMessage(r.ec, <<r.em>>)) ELSE Panic
         ELSE Unit

\* ----------------------------------------------- auth/account/login.rs
\* login_email_pass up to the "complete" request: parse and check the init
\* response, read s, B, i, c and run the SRP client on them.
login_email_pass_init(r) ==
    LET p == parse_response(r)
        c == check_error(r)
    IN  IF p.kind # "Ok" THEN p
        ELSE IF c.kind # "Ok" THEN c
        ELSE IF r.fields # "ok" THEN Panic
        ELSE Unit

\* A plausible bug: the two secondary-auth markers are swapped.
secondary_auth_swapped(r) ==
    IF r.auKind = "string"
    THEN CASE r.au = "trustedDeviceSecondaryAuth" -> NeedsSMS2FA
           [] r.au = "secondaryAuth" -> NeedsDevice2FA
           [] OTHER -> NeedsExtraStep(r.au)
    ELSE LoggedIn

\* The LoginState a successful round returns, from Status.au.
secondary_auth(r) ==
    IF r.auKind = "string"
    THEN CASE r.au = "trustedDeviceSecondaryAuth" -> NeedsDevice2FA
           [] r.au = "secondaryAuth" -> NeedsSMS2FA
           [] OTHER -> NeedsExtraStep(r.au)
    ELSE LoggedIn

\* A plausible bug: a failed round clears the session dictionary.
login_email_pass_complete_clears(spd0, gen, r) ==
    LET p == parse_response(r)
        c == check_error(r)
    IN  IF p.kind # "Ok" THEN [res |-> p, spd |-> NoSpd]
        ELSE IF c.kind # "Ok" THEN [res |-> c, spd |-> NoSpd]
        ELSE IF r.m2 # "ok" \/ r.spdData # "ok" \/ ~r.StatusDict
             THEN [res |-> Panic, spd |-> NoSpd]
        ELSE [res |-> Ok(secondary_auth(r)), spd |-> SomeSpd(gen, r.t, r.ids)]

\* login_email_pass from the "complete" response on: the result and the
\* value of self.spd afterwards.
login_email_pass_complete(spd0, gen, r) ==
    LET p == parse_response(r)
        c == check_error(r)
    IN  IF p.kind # "Ok" THEN [res |-> p, spd |-> spd0]
        ELSE IF c.kind # "Ok" THEN [res |-> c, spd |-> spd0]
        ELSE IF r.m2 # "ok" THEN [res |-> Panic, spd |-> spd0]
        ELSE IF r.spdData # "ok" THEN [res |-> Panic, spd |-> spd0]
        ELSE IF ~r.StatusDict THEN [res |-> Panic, spd |-> spd0]
        ELSE [res |-> Ok(secondary_auth(r)), spd |-> SomeSpd(gen, r.t, r.ids)]

\* get_pet: "Some", "None", or "Panic" (spd absent, or a "t" dictionary
\* without a string token under com.apple.gs.idms.pet).
get_pet(spd0) ==
    IF ~spd0.some THEN "Panic"
    ELSE CASE spd0.t = "pet" -> "Some"
           [] spd0.t = "nopet" -> "Panic"
           [] OTHER -> "None"

\* A plausible bug: an unsupported step is let through as a login.
loop_exit_accepts_extra_step(spd0, st) ==
    Ok(st)

\* The two returning arms of the driving loop.
loop_exit(spd0, st) ==
    IF st.tag = "LoggedIn" THEN Ok(st)
    ELSE CASE get_pet(spd0) = "Some" -> Ok(st)
           [] get_pet(spd0) = "None" -> Err(ExtraStep(st.step))
           [] OTHER -> Panic

\* A plausible bug: the provider's message is not put into the error.
provider_error_drops_message(prefix, e) ==
    AuthSrpWithMessage(0, <<prefix>>)

\* map_err of a failed provider: format!("<prefix>{}", e).
provider_error(prefix, e) ==
    AuthSrpWithMessage(0, <<prefix, e>>)

\* --------------------------------------- auth/account/two_factor_auth.rs
\* build_2fa_headers returns (TRUE) or panics on an absent spd or identity.
build_2fa_headers(spd0) ==
    spd0.some /\ spd0.ids

is_success(status) ==
    status >= 200 /\ status <= 299

\* A plausible bug: the push request reports the login as complete.
send_2fa_to_devices_logs_in(spd0, r) ==
    IF ~build_2fa_headers(spd0) THEN [res |-> Panic, sent |-> <<>>]
    ELSE [res |-> IF r.net = "err" THEN Err(ReqwestError)
                  ELSE IF ~is_success(r.status) THEN Err(AuthSrp)
                  ELSE Ok(LoggedIn),
          sent |-> <<Req("trusteddevice", 0, "")>>]

send_2fa_to_devices(spd0, r) ==
    IF ~build_2fa_headers(spd0) THEN [res |-> Panic, sent |-> <<>>]
    ELSE [res |-> IF r.net = "err" THEN Err(ReqwestError)
                  ELSE IF ~is_success(r.status) THEN Err(AuthSrp)
                  ELSE Ok(Needs2FAVerification),
          sent |-> <<Req("trusteddevice", 0, "")>>]

\* A plausible bug: the returned phone context is not the requested phone.
send_sms_2fa_to_devices_other_phone(spd0, phone_id, r) ==
    IF ~build_2fa_headers(spd0) THEN [res |-> Panic, sent |-> <<>>]
    ELSE [res |-> IF r.net = "err" THEN Err(ReqwestError)
                  ELSE IF ~is_success(r.status) THEN Err(AuthSrp)
                  ELSE Ok(NeedsSMS2FAVerification(VerifyBody(0, "sms", ""))),
          sent |-> <<Req("phone", phone_id, "")>>]

send_sms_2fa_to_devices(spd0, phone_id, r) ==
    IF ~build_2fa_headers(spd0) THEN [res |-> Panic, sent |-> <<>>]
    ELSE [res |-> IF r.net = "err" THEN Err(ReqwestError)
                  ELSE IF ~is_success(r.status) THEN Err(AuthSrp)
                  ELSE Ok(NeedsSMS2FAVerification(VerifyBody(phone_id, "sms", ""))),
          sent |-> <<Req("phone", phone_id, "")>>]

verify_2fa(spd0, code, r) ==
    IF ~build_2fa_headers(spd0) THEN [res |-> Panic, sent |-> <<>>]
    ELSE [res |-> IF r.net = "err" THEN Err(ReqwestError)
                  ELSE IF ~r.plist THEN Err(PlistError)
                  ELSE IF check_error(r).kind # "Ok" THEN check_error(r)
                  ELSE Ok(NeedsLogin),
          sent |-> <<Req("validate", 0, code)>>]

verify_sms_2fa(spd0, code, body, r) ==
    IF ~build_2fa_headers(spd0) THEN [res |-> Panic, sent |-> <<>>]
    ELSE [res |-> IF r.net = "err" THEN Err(ReqwestError)
                  ELSE IF r.status # 200 THEN Err(Bad2faCode)
                  ELSE Ok(NeedsLogin),
          sent |-> <<Req("securitycode", body.phone, code)>>]

\* ----------------------------------------------- auth/account/token.rs
\* struct AppToken { app_tokens, auth_token, app }; the token string of a
\* service is named after the service.
TokenOf(service) == <<"token", service>>

AppToken(app_tokens, auth_token, app) ==
    [some |-> TRUE, app_tokens |-> app_tokens, auth_token |-> auth_token, app |-> app]

NoToken == [some |-> FALSE, app_tokens |-> {}, auth_token |-> <<>>, app |-> ""]

\* A plausible bug: the tag is not checked, only the ciphertext.
gcm_finish_ignores_tag(et) == et # "tampered"

\* cipher.finish of Botan's AES-256/GCM: the tag verifies only over the
\* ciphertext and tag the server produced.
gcm_finish(et) == et \notin {"tampered", "tamperedtag"}

\* get_app_token: the result, the request it sent and the AppToken it
\* returned.  The session dictionary is only read.
get_app_token(spd0, app_name, r) ==
    IF ~(spd0.some /\ spd0.ids) THEN [res |-> Panic, sent |-> <<>>, token |-> NoToken]
    ELSE LET res ==
               IF parse_response(r).kind # "Ok" THEN parse_response(r)
               ELSE IF check_error(r).kind # "Ok" THEN check_error(r)
               ELSE IF r.et \in {"missing", "short"} THEN Err(ParseError)
               ELSE IF r.et = "badheader"
                    THEN Err(AuthSrpWithMessage(0,
                               <<"Encrypted token is in an unknown format.">>))
               ELSE IF ~gcm_finish(r.et)
                    THEN Err(AuthSrpWithMessage(0,
                               <<"Failed to decrypt app token (Botan AES-256/GCM).">>))
               ELSE IF r.et = "malformed" THEN Err(ParseError)
               ELSE IF app_name \notin r.services THEN Err(ParseError)
               ELSE IF r.et = "notoken" THEN Err(ParseError)
               ELSE Unit
         IN  [res |-> res,
              sent |-> <<Req("apptokens", 0, "")>>,
              token |-> IF res.kind = "Ok"
                        THEN AppToken({[service |-> sv, token |-> TokenOf(sv)] :
                                          sv \in r.services},
                                      TokenOf(app_name), app_name)
                        ELSE NoToken]

\* --------------------------------------------- auth/account/request.rs
\* qh_send_request / v1_send_request: fetch an app token, then send the
\* portal request; the body that does not parse is the dialect's error.
send_request(spd0, dialect, rt, r) ==
    LET tok == get_app_token(spd0, AppName, rt)
    IN  IF tok.res.kind # "Ok" THEN [res |-> tok.res, sent |-> tok.sent]
        ELSE [res |-> IF r.net = "err" THEN Err(ReqwestError)
                      ELSE IF ~r.plist
                           THEN Err(IF dialect = "qh" THEN PlistError ELSE SerdeJsonError)
                           ELSE Unit,
              sent |-> tok.sent \o <<Req(dialect, 0, "")>>]

\* The HTTP request qh_send_request puts on the wire: its method and its
\* X-HTTP-Method-Override header ("" when not set).
qh_wire(body) ==
    [method |-> IF body THEN "POST" ELSE "GET", override |-> ""]

\* The HTTP request v1_send_request puts on the wire, from the request type
\* ("None" for no type) and the presence of a body.
v1_wire(request_type, body) ==
    [method |-> IF body
                THEN IF request_type = "Post" THEN "POST"
                     ELSE IF request_type = "Patch" THEN "PATCH"
                     ELSE "POST"
                ELSE "GET",
     override |-> IF request_type = "Get" THEN "GET" ELSE ""]

NoWire == [method |-> "", override |-> ""]

\* ------------------------------------------------------ developer/mod.rs
\* The replies of the developer portal to a legacy (plist) request.
QhReplies ==
    { [R0 EXCEPT !.kind = "portal", !.net = "err"],
      [R0 EXCEPT !.kind = "portal", !.plist = FALSE],
      [R0 EXCEPT !.kind = "portal", !.meta = FALSE],
      [R0 EXCEPT !.kind = "portal"],
      [R0 EXCEPT !.kind = "portal", !.hasString = TRUE, !.resultString = "ok"] }
    \cup { [R0 EXCEPT !.kind = "portal", !.resultCode = c] : c \in {35, 7460} }
    \cup { [R0 EXCEPT !.kind = "portal", !.resultCode = 7460, !.hasString = TRUE,
                      !.resultString = "Too many certificates"] }

\* One element of a JSON:API "errors" array: "status" as the text it holds
\* ("" when it is absent or no string), "detail" likewise.
ErrorItems ==
    { [status |-> "409", hasDetail |-> TRUE, detail |-> "conflict"],
      [status |-> "403", hasDetail |-> TRUE, detail |-> "forbidden"],
      [status |-> "n/a", hasDetail |-> FALSE, detail |-> ""] }

\* The replies of the developer portal to a JSON:API request.
V1Replies ==
    { [R0 EXCEPT !.kind = "portal", !.net = "err"],
      [R0 EXCEPT !.kind = "portal", !.plist = FALSE],
      [R0 EXCEPT !.kind = "portal"],
      [R0 EXCEPT !.kind = "portal", !.errors = [kind |-> "notarray", items |-> <<>>]],
      [R0 EXCEPT !.kind = "portal", !.errors = [kind |-> "array", items |-> <<>>]] }
    \cup { [R0 EXCEPT !.kind = "portal", !.errors = [kind |-> "array", items |-> <<e>>]] :
              e \in ErrorItems }
    \cup { [R0 EXCEPT !.kind = "portal",
                      !.errors = [kind |-> "array", items |-> <<e1, e2>>]] :
              e1 \in {e \in ErrorItems : e.hasDetail},
              e2 \in {e \in ErrorItems : e.status = "409"} }

\* str::parse::<i64> on the status texts drawn; None is 0 after unwrap_or(0).
parse_i64(text) ==
    CASE text = "409" -> 409
      [] text = "403" -> 403
      [] OTHER -> 0

\* DeveloperSession::qh_send_request, from the result of the account's
\* request and the reply it returned.
dev_qh_send_request(acc, r) ==
    IF acc.kind = "Panic" THEN Panic
    ELSE IF acc.kind = "Err" THEN Err(DeveloperSessionRequestFailed)
    ELSE IF ~r.meta THEN Err(PlistError)
    ELSE IF r.resultCode # 0
         THEN Err(DeveloperSession(r.resultCode,
                     IF r.hasString THEN r.resultString ELSE "Unknown"))
         ELSE Unit

\* A plausible bug: the last element of the errors array is reported.
dev_v1_send_request_last_error(acc, r) ==
    IF acc.kind = "Panic" THEN Panic
    ELSE IF acc.kind = "Err" THEN Err(DeveloperSessionRequestFailed)
    ELSE IF r.errors.kind = "array" /\ Len(r.errors.items) > 0
         THEN LET e == r.errors.items[Len(r.errors.items)]
              IN  Err(DeveloperSession(parse_i64(e.status),
                         IF e.hasDetail THEN e.detail ELSE "Unknown error"))
         ELSE Unit

\* DeveloperSession::v1_send_request, likewise.
dev_v1_send_request(acc, r) ==
    IF acc.kind = "Panic" THEN Panic
    ELSE IF acc.kind = "Err" THEN Err(DeveloperSessionRequestFailed)
    ELSE IF r.errors.kind = "array" /\ Len(r.errors.items) > 0
         THEN LET e == r.errors.items[1]
              IN  Err(DeveloperSession(parse_i64(e.status),
                         IF e.hasDetail THEN e.detail ELSE "Unknown error"))
         ELSE Unit

\* ------------------------------------------- certificate/identity.rs
\* Error::Certificate(String) and the io::Error of a file operation.
CertificateError(msg) == Error("Certificate", 0, <<msg>>)
IoError == Error("Io", 0, <<>>)
CodesignError == Error("Codesign", 0, <<>>)

\* machine_name of this installation, and the label of another machine.
MachineName == "this-machine"
OtherMachine == "other-machine"

\* RSA private keys: the one a key file on disk already holds, one held by
\* somebody else, and the n-th key this installation drew from OsRng.
NoKey == [origin |-> "none", n |-> 0, public |-> FALSE]
DiskKey == [origin |-> "disk", n |-> 0, public |-> FALSE]
ForeignKey == [origin |-> "foreign", n |-> 0, public |-> FALSE]
GeneratedKey(n) == [origin |-> "generated", n |-> n, public |-> FALSE]

\* RsaPrivateKey::to_public_key.
to_public_key(key) == [key EXCEPT !.public = TRUE]

\* key.pem: absent, the PKCS#8 PEM of a key, or a truncated file.
NoFile == [exists |-> FALSE, pem |-> FALSE, key |-> NoKey]
to_pkcs8_pem(key) == [exists |-> TRUE, pem |-> TRUE, key |-> key]
TruncatedFile == [exists |-> TRUE, pem |-> FALSE, key |-> NoKey]

\* RsaPrivateKey::from_pkcs8_pem on the text of the key file.
from_pkcs8_pem(file) ==
    IF file.pem THEN [res |-> Unit, key |-> file.key]
    ELSE [res |-> Err(CertificateError("Failed to parse private key")), key |-> NoKey]

\* What the file system does to create_dir_all and to a write of key.pem.
FsOutcomes == {"ok", "mkdir_fails", "write_fails", "write_truncated"}

\* One entry of the record of a call: the step and how it went ("sent"
\* while a portal request is in flight).
Ev(op, st) == [op |-> op, st |-> st]

\* A plausible bug: a new key is drawn although a key file exists.
load_or_generate_key_regenerates(keyFile, generated, fs) ==
    IF fs = "mkdir_fails"
    THEN [res |-> Err(IoError), key |-> NoKey, keyFile |-> keyFile,
          generated |-> generated, log |-> <<>>]
    ELSE LET key == GeneratedKey(generated + 1)
         IN  IF fs = "ok"
             THEN [res |-> Unit, key |-> key, keyFile |-> to_pkcs8_pem(key),
                   generated |-> generated + 1, log |-> <<Ev("write_key", "ok")>>]
             ELSE [res |-> Err(IoError), key |-> NoKey,
                   keyFile |-> IF fs = "write_truncated" THEN TruncatedFile ELSE keyFile,
                   generated |-> generated + 1, log |-> <<Ev("write_key", "failed")>>]

\* CertificateIdentity::new up to the construction of `ci`: the key
\* directory, then the key of the key file or a new key written to it.
load_or_generate_key(keyFile, generated, fs) ==
    IF fs = "mkdir_fails"
    THEN [res |-> Err(IoError), key |-> NoKey, keyFile |-> keyFile,
          generated |-> generated, log |-> <<>>]
    ELSE IF keyFile.exists
    THEN LET k == from_pkcs8_pem(keyFile)
         IN  [res |-> k.res, key |-> k.key, keyFile |-> keyFile,
              generated |-> generated, log |-> <<>>]
    ELSE LET key == GeneratedKey(generated + 1)
         IN  IF fs = "ok"
             THEN [res |-> Unit, key |-> key, keyFile |-> to_pkcs8_pem(key),
                   generated |-> generated + 1, log |-> <<Ev("write_key", "ok")>>]
             ELSE [res |-> Err(IoError), key |-> NoKey,
                   keyFile |-> IF fs = "write_truncated" THEN TruncatedFile ELSE NoFile,
                   generated |-> generated + 1, log |-> <<Ev("write_key", "failed")>>]

\* developer::qh::certs::Cert, as far as it is read: the machine label,
\* the serial number and certificate id, whether cert_content is a DER
\* certificate whose PKCS#1 public key can be read, and that key.
Cert(machine_name, key, der, id) ==
    [machine_name |-> machine_name, key |-> to_public_key(key), der |-> der,
     serial_number |-> id, certificate_id |-> id]
NoCert == Cert("", NoKey, FALSE, 0)

\* The certificates a portal list is drawn from, before ids are given.
CertKinds ==
    { Cert(MachineName, DiskKey, TRUE, 0),
      Cert(MachineName, ForeignKey, TRUE, 0),
      Cert(OtherMachine, DiskKey, TRUE, 0),
      Cert(MachineName, DiskKey, FALSE, 0) }

\* The certificate lists the team may hold when the first call is made.
PortalLists ==
    UNION { { [i \in 1..n |-> [f[i] EXCEPT !.serial_number = i, !.certificate_id = i]] :
                 f \in [1..n -> CertKinds] } : n \in 0..MaxCerts }

\* What a request through DeveloperSession::qh_send_request may return.
QhResults ==
    { dev_qh_send_request(acc, r) : acc \in {Unit, Err(ReqwestError)}, r \in QhReplies }

\* DeveloperSession::qh_list_certs: the list of the reply, or the error.
qh_list_certs(res, certs) ==
    IF res.kind = "Ok" THEN [res |-> Unit, certificates |-> certs]
    ELSE [res |-> res, certificates |-> <<>>]
NoListing == [res |-> Pending, certificates |-> <<>>]

\* The certificates of a list that carry this machine's label and this
\* key: the indices find_matching_certificate would return from.
Matching(private_key, machine_name, certs) ==
    { i \in 1..Len(certs) :
         /\ certs[i].machine_name = machine_name
         /\ certs[i].der
         /\ certs[i].key = to_public_key(private_key) }

MinOf(S) == CHOOSE i \in S : \A j \in S : i <= j
MaxOf(S) == CHOOSE i \in S : \A j \in S : i >= j

\* A plausible bug: the last matching certificate is returned.
find_matching_certificate_last(private_key, machine_name, listing) ==
    IF listing.res.kind # "Ok" THEN [res |-> listing.res, cert |-> NoCert]
    ELSE LET m == Matching(private_key, machine_name, listing.certificates)
         IN  IF m = {}
             THEN [res |-> Err(CertificateError("No matching certificate found")),
                   cert |-> NoCert]
             ELSE [res |-> Unit, cert |-> listing.certificates[MaxOf(m)]]

\* CertificateIdentity::find_matching_certificate, from the result of
\* its qh_list_certs.
find_matching_certificate(private_key, machine_name, listing) ==
    IF listing.res.kind # "Ok" THEN [res |-> listing.res, cert |-> NoCert]
    ELSE LET m == Matching(private_key, machine_name, listing.certificates)
         IN  IF m = {}
             THEN [res |-> Err(CertificateError("No matching certificate found")),
                   cert |-> NoCert]
             ELSE [res |-> Unit, cert |-> listing.certificates[MinOf(m)]]

\* A plausible bug: the first certificate of the list is revoked, whatever
\* its label.
find_by_machine_name_any(machine_name, certs) ==
    IF Len(certs) = 0 THEN 0 ELSE 1

\* The first certificate of a list with this machine's label (the one the
\* quota branch revokes), 0 if there is none.
find_by_machine_name(machine_name, certs) ==
    LET m == { i \in 1..Len(certs) : certs[i].machine_name = machine_name }
    IN  IF m = {} THEN 0 ELSE MinOf(m)

\* The first certificate of a list with this certificate id, 0 if none.
find_by_certificate_id(id, certs) ==
    LET m == { i \in 1..Len(certs) : certs[i].certificate_id = id }
    IN  IF m = {} THEN 0 ELSE MinOf(m)

\* The list without the certificates of a serial number.
Revoked(certs, serial) == SelectSeq(certs, LAMBDA c : c.serial_number # serial)

\* The signing identity before any call of CertificateIdentity::new.
NoIdentity ==
    [pc |-> "idle", calls |-> 0, prev |-> "None", keyFile |-> NoFile, generated |-> 0,
     portal |-> <<>>, issued |-> 0, key |-> NoKey, log |-> <<>>,
     seen |-> NoListing, target |-> 0, csr |-> 0, certificate |-> NoCert,
     certFile |-> 0, result |-> Pending]

\* ----------------------------------------------------- types/bundle.rs
\* BundleType::from_extension: every extension is some type.
from_extension(ext) ==
    CASE ext = "app" -> "App"
      [] ext = "appex" -> "AppExtension"
      [] ext = "framework" -> "Framework"
      [] OTHER -> "Unknown"

\* A directory of the package: the extension of its name ("" for a name
\* without a dot) and whether it holds an Info.plist.
DirEntry(ext, plist) == [ext |-> ext, plist |-> plist]

\* The directories a package is drawn from: bundles of the four types, a
\* compiled storyboard that looks like a bundle, and a plain directory.
DirEntries ==
    { DirEntry("app", TRUE), DirEntry("appex", TRUE), DirEntry("framework", TRUE),
      DirEntry("bundle", TRUE), DirEntry("storyboardc", TRUE), DirEntry("", FALSE) }

\* The directory tree under the root bundle (directory 0): directory i lies
\* in directory parent[i]; fs::read_dir lists a directory in the order of
\* the numbers.
Packages ==
    UNION { { [parent |-> p, entry |-> e] :
                 p \in { q \in [1..n -> 0..(n - 1)] : \A i \in 1..n : q[i] < i },
                 e \in [1..n -> DirEntries] } : n \in 1..MaxEntries }
NoPackage == [parent |-> <<>>, entry |-> <<>>]

\* Bundle, as far as it is read: its directory and its type.
Bundle(dir, type) == [dir |-> dir, type |-> type]
RootBundle == Bundle(0, from_extension("app"))

\* Bundle::new: a directory is a bundle when it holds an Info.plist.
bundle_new(t, i) ==
    IF t.entry[i].plist THEN [ok |-> TRUE, bundle |-> Bundle(i, from_extension(t.entry[i].ext))]
    ELSE [ok |-> FALSE, bundle |-> Bundle(i, "Unknown")]

\* is_bundle_dir: the name has an extension.
is_bundle_dir(ext) == ext # ""

\* fs::read_dir of a directory.
read_dir(t, d) ==
    SelectSeq([i \in 1..Len(t.parent) |-> i], LAMBDA i : t.parent[i] = d)

RECURSIVE collect_entries(_, _)
RECURSIVE collect_embeded_bundles_from_dir(_, _)

\* A plausible bug: compiled storyboards are treated like other entries.
collect_entries_with_storyboards(t, entries) ==
    IF entries = <<>> THEN <<>>
    ELSE LET i == Head(entries)
             rest == collect_entries(t, Tail(entries))
             b == bundle_new(t, i)
         IN  IF is_bundle_dir(t.entry[i].ext) /\ b.ok
             THEN IF b.bundle.type = "App"
                  THEN <<b.bundle>> \o rest
                  ELSE <<b.bundle>> \o collect_embeded_bundles_from_dir(t, i) \o rest
             ELSE collect_embeded_bundles_from_dir(t, i) \o rest

\* The loop of collect_embeded_bundles_from_dir over the entries of a
\* directory, in their order.
collect_entries(t, entries) ==
    IF entries = <<>> THEN <<>>
    ELSE LET i == Head(entries)
             rest == collect_entries(t, Tail(entries))
             b == bundle_new(t, i)
         IN  IF t.entry[i].ext = "storyboardc" THEN rest
             ELSE IF is_bundle_dir(t.entry[i].ext) /\ b.ok
             THEN IF b.bundle.type = "App"
                  THEN <<b.bundle>> \o rest
                  ELSE <<b.bundle>> \o collect_embeded_bundles_from_dir(t, i) \o rest
             ELSE collect_embeded_bundles_from_dir(t, i) \o rest

collect_embeded_bundles_from_dir(t, dir) == collect_entries(t, read_dir(t, dir))

\* bundle.get_dir().components().count(), counted from the root bundle.
RECURSIVE components_count(_, _)
components_count(t, dir) ==
    IF dir = 0 THEN 0 ELSE 1 + components_count(t, t.parent[dir])

\* The directories a directory lies in, up to the root bundle.
RECURSIVE Containers(_, _)
Containers(t, dir) ==
    IF dir = 0 THEN {} ELSE {t.parent[dir]} \cup Containers(t, t.parent[dir])

\* slice::sort_by_key on the depth (a stable sort), from depth d on.
RECURSIVE sort_by_key(_, _, _)
sort_by_key(t, bundles, d) ==
    IF d > Len(t.parent) THEN <<>>
    ELSE SelectSeq(bundles, LAMBDA b : components_count(t, b.dir) = d)
            \o sort_by_key(t, bundles, d + 1)

reverse(s) == [i \in 1..Len(s) |-> s[Len(s) + 1 - i]]

\* A plausible bug: the sorted list is not reversed.
sorted_bundles_shallowest_first(t, bundles, root) ==
    sort_by_key(t, Append(bundles, root), 0)

\* ldid2 Signer::sign, SignerMode::Default: the embedded bundles and the
\* root, sorted by depth, deepest first.
sorted_bundles(t, bundles, root) ==
    reverse(sort_by_key(t, Append(bundles, root), 0))

\* Bundle::collect_bundles_sorted.
collect_bundles_sorted(t) ==
    sorted_bundles(t, collect_embeded_bundles_from_dir(t, 0), RootBundle)

\* A signing run before it starts.
NoJob ==
    [pc |-> "idle", package |-> NoPackage, signer |-> "", supplied |-> FALSE,
     listed |-> <<>>, embedded |-> <<>>, bundles |-> <<>>, signed |-> <<>>,
     result |-> Pending]

\* ---------------------------------- Bundle::set_matching_identifier
\* Strings are sequences of characters; Option<String> is a record.
Some(s) == [some |-> TRUE, s |-> s]
None == [some |-> FALSE, s |-> <<>>]

\* The strings of up to n characters over an alphabet.
Strings(alphabet, n) == UNION { [1..k -> alphabet] : k \in 0..n }

\* A plausible bug: only the first occurrence is replaced.
str_replace_first(s, from, to) ==
    LET at == { i \in 1..(Len(s) - Len(from) + 1) :
                   SubSeq(s, i, i + Len(from) - 1) = from }
    IN  IF at = {} THEN s
        ELSE LET i == MinOf(at)
             IN  SubSeq(s, 1, i - 1) \o to \o SubSeq(s, i + Len(from), Len(s))

\* str::replace with a non-empty pattern: the matches are taken from the
\* left, each after the end of the one before.
RECURSIVE str_replace(_, _, _)
str_replace(s, from, to) ==
    IF Len(s) < Len(from) THEN s
    ELSE IF SubSeq(s, 1, Len(from)) = from
    THEN to \o str_replace(SubSeq(s, Len(from) + 1, Len(s)), from, to)
    ELSE <<Head(s)>> \o str_replace(Tail(s), from, to)

\* The Info.plist of a sub-bundle, as far as it is read: the three
\* identifiers (WKAppBundleIdentifier of NSExtension.NSExtensionAttributes)
\* and a key that is none of them.
InfoPlist(id, companion, wkapp) ==
    [CFBundleIdentifier |-> id, WKCompanionAppBundleIdentifier |-> companion,
     WKAppBundleIdentifier |-> wkapp, CFBundleName |-> Some(<<"a", "b">>)]

\* The steps on one of the three values in set_matching_identifier.
rewrite_value(v, old_identifier, new_identifier) ==
    IF v.some THEN Some(str_replace(v.s, old_identifier, new_identifier)) ELSE v

\* Bundle::set_matching_identifier: the dictionary after the three steps,
\* and whether it was written back to the file.
set_matching_identifier(plist, old_identifier, new_identifier) ==
    LET new == [plist EXCEPT
                   !.CFBundleIdentifier =
                       rewrite_value(@, old_identifier, new_identifier),
                   !.WKCompanionAppBundleIdentifier =
                       rewrite_value(@, old_identifier, new_identifier),
                   !.WKAppBundleIdentifier =
                       rewrite_value(@, old_identifier, new_identifier)]
    IN  [plist |-> new, did_change |-> new # plist]

\* Signer::modify_bundle, lines 88-102: the identifier the sub-bundles are
\* rewritten to, if any.
custom_identifier(export, custom, identifier, team_id) ==
    IF ~export /\ ~custom.some /\ team_id.some
    THEN Some(identifier \o <<".">> \o team_id.s)
    ELSE custom

\* The Info.plist files a run may meet, the identifiers of the root bundle
\* and the identifiers asked for.
InfoPlists ==
    { InfoPlist(id, companion, wkapp) :
         id \in {None} \cup { Some(s) : s \in Strings({"a", "b"}, MaxIdLen) },
         companion \in {None, Some(<<"a", "b">>), Some(<<"b", "a", "b", "a">>)},
         wkapp \in {None, Some(<<"a", "a", "a">>), Some(<<"b", "b">>)} }
RootIdentifiers == { <<"a">>, <<"a", "b">>, <<"a", "a">> }
CustomIdentifiers == { None, Some(<<"b">>), Some(<<"a", "b", "b">>) }

\* The rewriting of one Info.plist before it starts.
NoRewrite ==
    [pc |-> "idle", plist |-> InfoPlist(None, None, None),
     before |-> InfoPlist(None, None, None), identifier |-> <<>>,
     export |-> FALSE, custom |-> None, team_id |-> None, writes |-> 0]

\* ------------------------------------------------- MobileProvision
\* A plist string and a plist array of strings.
Str(s) == [string |-> s]
Arr(a) == [array |-> a]
IsStr(v) == DOMAIN v = {"string"}
IsArr(v) == DOMAIN v = {"array"}

\* A dictionary is a function on its keys.
EmptyDict == [k \in {} |-> Str(<<>>)]
insert(d, key, v) == [k \in DOMAIN d \cup {key} |-> IF k = key THEN v ELSE d[k]]

\* "T" and "U" stand for two team identifiers of ten characters of A-Z0-9.
TeamPrefixes == {"T", "U"}

\* The bytes of a .mobileprovision file: a signed envelope around a plist.
ProvisionData(prefix, entitlements) ==
    [cms |-> "signed",
     plist |-> [ApplicationIdentifierPrefix |-> prefix, Entitlements |-> entitlements]]
extract_plist_from_file(data) == data.plist
extract_entitlements(plist) == plist.Entitlements

\* MobileProvision::load_with_bytes
load_with_bytes(data) ==
    [provision_data |-> data,
     provisioning_plist |-> extract_plist_from_file(data),
     entitlements |-> extract_entitlements(extract_plist_from_file(data))]

\* MobileProvision::replace_wildcard_in_entitlements
replace_wildcard_in_entitlements(entitlements, new_application_id) ==
    [k \in DOMAIN entitlements |->
        LET v == entitlements[k]
        IN  IF IsStr(v) THEN Str(str_replace(v.string, <<"*">>, new_application_id))
            ELSE Arr([i \in DOMAIN v.array |->
                        str_replace(v.array[i], <<"*">>, new_application_id)])]

\* The executable of a bundle as merge_entitlements meets it: no
\* CFBundleExecutable, a file MachO::new cannot read, a binary without
\* entitlements, or a binary with entitlements.
NoExecutable == [kind |-> "none", entitlements |-> EmptyDict]
Unreadable == [kind |-> "unreadable", entitlements |-> EmptyDict]
Unsigned == [kind |-> "unsigned", entitlements |-> EmptyDict]
Binary(entitlements) == [kind |-> "macho", entitlements |-> entitlements]

\* MobileProvision::merge_entitlements
merge_entitlements(entitlements, binary) ==
    IF binary.kind = "unreadable"
    THEN [res |-> Err(IoError), entitlements |-> entitlements]
    ELSE IF binary.kind = "unsigned"
    THEN [res |-> Err(Error("ProvisioningEntitlementsUnknown", 0, <<>>)),
          entitlements |-> entitlements]
    ELSE LET other == binary.entitlements
             merged == IF "keychain-access-groups" \in DOMAIN other
                          /\ IsArr(other["keychain-access-groups"])
                       THEN insert(entitlements, "keychain-access-groups",
                                   other["keychain-access-groups"])
                       ELSE entitlements
             team == "com.apple.developer.team-identifier"
             rewrite(s) ==
                 IF Len(s) >= 2 /\ s[1] \in TeamPrefixes /\ s[2] = "."
                 THEN merged[team].string \o <<".">> \o SubSeq(s, 3, Len(s))
                 ELSE s
         IN  [res |-> Unit,
              entitlements |->
                  IF /\ team \in DOMAIN merged
                     /\ IsStr(merged[team])
                     /\ "keychain-access-groups" \in DOMAIN merged
                     /\ IsArr(merged["keychain-access-groups"])
                  THEN [merged EXCEPT !["keychain-access-groups"] =
                           Arr([i \in DOMAIN @.array |-> rewrite(@.array[i])])]
                  ELSE merged]

\* str::trim_start_matches('.')
RECURSIVE trim_start_dots(_)
trim_start_dots(s) ==
    IF s # <<>> /\ Head(s) = "." THEN trim_start_dots(Tail(s)) ELSE s

\* MobileProvision::bundle_id
bundle_id(prov) ==
    LET e == prov.entitlements
        prefixes == prov.provisioning_plist.ApplicationIdentifierPrefix
    IN  IF "application-identifier" \notin DOMAIN e
           \/ ~IsStr(e["application-identifier"])
           \/ prefixes = <<>>
        THEN None
        ELSE LET app_id == e["application-identifier"].string
                 prefix == prefixes[1]
             IN  IF Len(app_id) >= Len(prefix)
                    /\ SubSeq(app_id, 1, Len(prefix)) = prefix
                 THEN Some(trim_start_dots(SubSeq(app_id, Len(prefix) + 1, Len(app_id))))
                 ELSE Some(app_id)

\* The loop that looks for the profile of a bundle: the first one whose
\* application identifier is the bundle's identifier, 0 if none.
matched_prov(provisioning_files, identifier) ==
    LET m == { i \in DOMAIN provisioning_files :
                  /\ identifier.some
                  /\ bundle_id(provisioning_files[i]) = identifier }
    IN  IF m = {} THEN 0 ELSE MinOf(m)

\* The outcome of signing one bundle.
Signing(res, embedded, prov, entitlements, signed) ==
    [res |-> res, embedded |-> embedded, prov |-> prov,
     entitlements |-> entitlements, signed |-> signed]
NoProv == [some |-> FALSE]
SomeProv(p) == [some |-> TRUE, p |-> p]
NoData == [some |-> FALSE]
Unset == [set |-> FALSE]
SetTo(d) == [set |-> TRUE, dict |-> d]
SomeData(d) == [some |-> TRUE, data |-> d]

\* Signer::sign_single_bundle (utils): the entitlements start as the empty
\* dictionary; an App or AppExtension with a profile at hand gets the
\* profile written and its entitlements; then the bundle is signed.
sign_single_bundle(bundle, provisioning_files, write_ok, sign_ok) ==
    IF bundle.type \in {"App", "AppExtension"} /\ provisioning_files # <<>>
    THEN LET m == matched_prov(provisioning_files, bundle.identifier)
             chosen == provisioning_files[IF m = 0 THEN 1 ELSE m]
             replaced == IF bundle.identifier.some
                         THEN replace_wildcard_in_entitlements(chosen.entitlements,
                                                               bundle.identifier.s)
                         ELSE chosen.entitlements
             merged == IF bundle.executable.kind # "none"
                       THEN merge_entitlements(replaced, bundle.executable).entitlements
                       ELSE replaced
             prov == [chosen EXCEPT !.entitlements = merged]
         IN  IF ~write_ok
             THEN Signing(Err(IoError), NoData, SomeProv(prov), SetTo(EmptyDict), FALSE)
             ELSE IF ~sign_ok
             THEN Signing(Err(CodesignError), SomeData(prov.provision_data),
                          SomeProv(prov), SetTo(merged), FALSE)
             ELSE Signing(Unit, SomeData(prov.provision_data), SomeProv(prov),
                          SetTo(merged), TRUE)
    ELSE IF ~sign_ok
    THEN Signing(Err(CodesignError), NoData, NoProv, SetTo(EmptyDict), FALSE)
    ELSE Signing(Unit, NoData, NoProv, SetTo(EmptyDict), TRUE)

\* The body of the loop of Signer::sign (grand_slam): no entitlements are
\* set for other bundle types, an empty profile list is indexed at 0, a
\* failing merge ends the run and the profile file is copied on request.
sign_one(bundle, provisioning_files, should_embed_provisioning, write_ok, sign_ok) ==
    IF bundle.type \in {"App", "AppExtension"}
    THEN LET m == matched_prov(provisioning_files, bundle.identifier)
         IN  IF m = 0 /\ provisioning_files = <<>>
             THEN Signing(Panic, NoData, NoProv, Unset, FALSE)
             ELSE
             LET chosen == provisioning_files[IF m = 0 THEN 1 ELSE m]
                 replaced == IF bundle.identifier.some
                             THEN replace_wildcard_in_entitlements(chosen.entitlements,
                                                                   bundle.identifier.s)
                             ELSE chosen.entitlements
                 merge == IF bundle.executable.kind # "none"
                          THEN merge_entitlements(replaced, bundle.executable)
                          ELSE [res |-> Unit, entitlements |-> replaced]
                 prov == [chosen EXCEPT !.entitlements = merge.entitlements]
                 embedded == IF should_embed_provisioning
                             THEN SomeData(prov.provision_data) ELSE NoData
             IN  IF merge.res # Unit
                 THEN Signing(merge.res, NoData, SomeProv(prov), Unset, FALSE)
                 ELSE IF should_embed_provisioning /\ ~write_ok
                 THEN Signing(Err(IoError), NoData, SomeProv(prov), Unset, FALSE)
                 ELSE IF ~sign_ok
                 THEN Signing(Err(CodesignError), embedded, SomeProv(prov),
                              SetTo(merge.entitlements), FALSE)
                 ELSE Signing(Unit, embedded, SomeProv(prov),
                              SetTo(merge.entitlements), TRUE)
    ELSE IF ~sign_ok
    THEN Signing(Err(CodesignError), NoData, NoProv, Unset, FALSE)
    ELSE Signing(Unit, NoData, NoProv, Unset, TRUE)

\* The profiles, bundles and executables a run may meet.
Entitlements(app_id, team, groups) ==
    LET a == [k \in {"application-identifier"} |-> Str(app_id)]
        b == IF team.some THEN insert(a, "com.apple.developer.team-identifier",
                                      Str(team.s)) ELSE a
    IN  IF groups.some THEN insert(b, "keychain-access-groups", Arr(groups.s)) ELSE b
Profiles ==
    { load_with_bytes(ProvisionData(<<<<"T">>>>, e)) :
         e \in { Entitlements(<<"T", ".", "*">>, Some(<<"T">>), Some(<<<<"T", ".", "*">>>>)),
                 Entitlements(<<"T", ".", "a">>, Some(<<"T">>), Some(<<<<"T", ".", "a">>>>)),
                 Entitlements(<<"T", ".", "b">>, None, None) } }
Executables ==
    { NoExecutable, Unreadable, Unsigned,
      Binary(Entitlements(<<"U", ".", "a">>, None, Some(<<<<"U", ".", "a">>, <<"g">>>>))),
      Binary(Entitlements(<<"U", ".", "a">>, None, None)) }
SignedBundles ==
    [type : {"App", "AppExtension", "Framework", "Unknown"},
     identifier : {None, Some(<<"a">>), Some(<<"b">>)},
     executable : Executables]

\* The signing of one bundle before it starts.
NoSigning ==
    [pc |-> "idle", signer |-> "utils",
     bundle |-> [type |-> "Unknown", identifier |-> None, executable |-> NoExecutable],
     provisioning_files |-> <<>>, should_embed_provisioning |-> TRUE,
     out |-> Signing(Unit, NoData, NoProv, Unset, FALSE)]

\* ---------------------------------------------- Signer::register_bundle
\* A sub-bundle as registration reads it: its type, whether its Info.plist
\* names an executable, whether its binary's entitlements ask for a
\* capability, and the app groups of its binary (None: no such entitlement).
SubBundle(type, executable, caps, app_groups) ==
    [type |-> type, executable |-> executable, caps |-> caps,
     app_groups |-> app_groups]

\* A plausible bug: the filter forgets the bundle type.
registered_any_type(bundles, single_profile, i) ==
    ~(single_profile /\ i # Len(bundles))

\* The filter of register_bundle and of the install handler: with
\* single-profile embedding only the bundle that is the root (the last of
\* the sorted list), and only App and AppExtension bundles.
registered(bundles, single_profile, i) ==
    /\ ~(single_profile /\ i # Len(bundles))
    /\ bundles[i].type \in {"App", "AppExtension"}

\* A plausible bug: the profile is requested before the app groups are
\* assigned.
requests_profile_first(b, signer) ==
    <<"qh_ensure_app_id", "v1_list_capabilities", "qh_get_app_id">>
    \o (IF b.caps THEN <<"v1_update_app_id">> ELSE <<>>)
    \o <<"qh_get_profile">>
    \o (IF b.app_groups.some
        THEN [g \in DOMAIN b.app_groups.s |-> "qh_ensure_app_group"]
             \o <<"qh_assign_app_group">>
        ELSE <<>>)

\* The portal requests of one sub-bundle, in the order the code awaits
\* them. register_bundle ensures every group and assigns them in one
\* request; the install handler assigns each group after ensuring it.
requests(b, signer) ==
    <<"qh_ensure_app_id", "v1_list_capabilities", "qh_get_app_id">>
    \o (IF b.caps THEN <<"v1_update_app_id">> ELSE <<>>)
    \o (IF ~b.app_groups.some THEN <<>>
        ELSE IF signer = "utils"
        THEN [g \in DOMAIN b.app_groups.s |-> "qh_ensure_app_group"]
             \o <<"qh_assign_app_group">>
        ELSE [k \in 1..(2 * Len(b.app_groups.s)) |->
                 IF k % 2 = 1 THEN "qh_ensure_app_group" ELSE "qh_assign_app_group"])
    \o <<"qh_get_profile">>

\* One registration: st is "skipped" (filtered out), "waiting" (not polled
\* yet), "in flight" (awaiting the reply to the last request of log),
\* "ok", "failed" or "dropped" (abandoned when another one failed).
Future(st, log) == [st |-> st, log |-> log]

\* The sub-bundle lists of a package: up to MaxSubBundles nested bundles,
\* then the root.
NestedBundles ==
    { SubBundle("Framework", TRUE, FALSE, None),
      SubBundle("Unknown", TRUE, FALSE, None),
      SubBundle("AppExtension", FALSE, FALSE, None),
      SubBundle("AppExtension", TRUE, FALSE, None),
      SubBundle("AppExtension", TRUE, TRUE, Some(<<"g">>)) }
RootBundles ==
    { SubBundle("App", TRUE, FALSE, None),
      SubBundle("App", TRUE, TRUE, Some(<<"g">>)),
      SubBundle("App", TRUE, FALSE, Some(<<>>)),
      SubBundle("App", FALSE, FALSE, None) }
BundleLists ==
    { nested \o <<root>> :
         nested \in UNION { [1..n -> NestedBundles] : n \in 0..MaxSubBundles },
         root \in RootBundles }

\* A registration before it starts. The profile of sub-bundle i is written
\* i; 0 is a profile the signer held before.
NoRegistration ==
    [pc |-> "idle", signer |-> "utils", single_profile |-> FALSE,
     bundles |-> <<>>, fut |-> <<>>, portal |-> {}, embedded |-> {},
     provisioning_files |-> <<0>>, res |-> Unit]

\* The first polls of try_join_all: the futures are polled in order; each
\* runs to its first request, or fails before it, which ends the polling.
first_poll(bundles, single_profile, signer) ==
    LET eligible == { i \in DOMAIN bundles : registered(bundles, single_profile, i) }
        broken == { i \in eligible : ~bundles[i].executable }
        stop == IF broken = {} THEN Len(bundles) + 1 ELSE MinOf(broken)
    IN  [i \in DOMAIN bundles |->
            IF i \notin eligible THEN Future("skipped", <<>>)
            ELSE IF i < stop
            THEN Future(IF broken = {} THEN "in flight" ELSE "dropped",
                        <<requests(bundles[i], signer)[1]>>)
            ELSE IF i = stop THEN Future("failed", <<>>)
            ELSE Future("dropped", <<>>)]

\* The install handler's loop arriving at sub-bundle j: the bundles that
\* are filtered out are passed, the next one sends its first request or
\* fails before it.
loop_from(fut, bundles, single_profile, signer, j) ==
    LET eligible == { i \in j..Len(bundles) : registered(bundles, single_profile, i) }
    IN  IF eligible = {} THEN fut
        ELSE LET i == MinOf(eligible)
             IN  [fut EXCEPT ![i] =
                     IF bundles[i].executable
                     THEN Future("in flight", <<requests(bundles[i], signer)[1]>>)
                     ELSE Future("failed", <<>>)]

\* The profiles collected, in the order of the sub-bundles.
RECURSIVE collected(_, _)
collected(fut, i) ==
    IF i > Len(fut) THEN <<>>
    ELSE (IF fut[i].st = "ok" THEN <<i>> ELSE <<>>) \o collected(fut, i + 1)

\* The registration as it stands after its futures moved to fut: failed
\* as soon as one failed (the others are dropped), finished when none is
\* left, else still running.
settle(r, fut) ==
    IF \E i \in DOMAIN fut : fut[i].st = "failed"
    THEN [r EXCEPT !.pc = "done", !.res = Err(Error("Other", 0, <<>>)),
                   !.fut = [i \in DOMAIN fut |->
                              IF fut[i].st \in {"in flight", "waiting"}
                              THEN Future("dropped", fut[i].log) ELSE fut[i]]]
    ELSE IF \A i \in DOMAIN fut : fut[i].st \in {"skipped", "ok"}
    THEN [r EXCEPT !.pc = "done", !.res = Unit, !.fut = fut,
                   !.provisioning_files = collected(fut, 1)]
    ELSE [r EXCEPT !.pc = "running", !.fut = fut]

\* -------------------------------------- qh_ensure_app_id / _app_group
\* A portal record (an AppID or an ApplicationGroup): the id the portal
\* gave it and the identifier it was added with.
Record(id, identifier) == [id |-> id, identifier |-> identifier]
NoRecord == Record(0, "")

\* A plausible bug: only the last record of the list is looked at.
find_identifier_last(list, identifier) ==
    IF list # <<>> /\ list[Len(list)].identifier = identifier
    THEN list[Len(list)] ELSE NoRecord

\* qh_get_app_id / qh_get_app_group after the listing: the first record of
\* the list with the identifier.
find_identifier(list, identifier) ==
    LET m == { i \in DOMAIN list : list[i].identifier = identifier }
    IN  IF m = {} THEN NoRecord ELSE list[MinOf(m)]

\* One caller of an ensure operation: "listing" awaits the reply to the
\* list request, "adding" the reply to the add request. calls counts its
\* calls, adds the add requests of the current call, after tells whether
\* the identifier had been ensured with success when the call began.
NoEnsure ==
    [pc |-> "idle", identifier |-> "", seen |-> <<>>, adds |-> 0, calls |-> 0,
     after |-> FALSE, returned |-> NoRecord, res |-> "none"]

Callers == {"f1", "f2"}
Identifiers == {"group.a", "group.b"}

\* The portal and the callers before any call. Under register_bundle
\* ("utils") the callers are futures of one try_join_all; in the install
\* handler ("frame") a call begins when the one before has returned.
NoEnsures ==
    [signer |-> "utils", portal |-> <<>>, ensured |-> {},
     call |-> [c \in Callers |-> NoEnsure]]

\* ------------------------------------- MachO::capabilities_for_entitlements
\* A capability of the catalog: its id and the entitlement keys it
\* declares (profile_key of each), if it declares any list.
Capability(id, entitlements) == [id |-> id, entitlements |-> entitlements]

\* A plausible bug: a capability counts only if all its keys are present.
RECURSIVE capability_ids_all_keys(_, _)
capability_ids_all_keys(capabilities, ent_keys) ==
    IF capabilities = <<>> THEN <<>>
    ELSE LET cap == Head(capabilities)
         IN  (IF cap.entitlements.some
                 /\ \A i \in DOMAIN cap.entitlements.s : cap.entitlements.s[i] \in ent_keys
              THEN <<cap.id>> ELSE <<>>)
             \o capability_ids_all_keys(Tail(capabilities), ent_keys)

\* The filter_map over the catalog: the ids of the capabilities one of
\* whose keys is among the binary's entitlement keys.
RECURSIVE capability_ids(_, _)
capability_ids(capabilities, ent_keys) ==
    IF capabilities = <<>> THEN <<>>
    ELSE LET cap == Head(capabilities)
         IN  (IF cap.entitlements.some
                 /\ \E i \in DOMAIN cap.entitlements.s : cap.entitlements.s[i] \in ent_keys
              THEN <<cap.id>> ELSE <<>>)
             \o capability_ids(Tail(capabilities), ent_keys)

\* MachO::capabilities_for_entitlements: None without entitlements in the
\* binary and None for an empty selection.
capabilities_for_entitlements(entitlements, capabilities) ==
    IF ~entitlements.some THEN None
    ELSE LET ids == capability_ids(capabilities, entitlements.s)
         IN  IF ids = <<>> THEN None ELSE Some(ids)

\* MachO::app_groups_for_entitlements: the strings of the array under
\* com.apple.security.application-groups, None without entitlements or
\* without that array.
app_groups_for_entitlements(entitlements, groups) ==
    IF entitlements.some /\ "com.apple.security.application-groups" \in entitlements.s
    THEN Some(groups) ELSE None

\* The entitlement keys a binary may carry (None: no embedded
\* entitlements; Option<Dictionary> read as the set of its keys) and the
\* catalogs the portal may return.
EntitlementKeys ==
    {None} \cup { Some(ks) : ks \in SUBSET {"aps-environment",
                                            "com.apple.security.application-groups"} }
Catalog ==
    { Capability(id, e) :
         id \in {"PUSH_NOTIFICATIONS", "APP_GROUPS"},
         e \in { None, Some(<<>>), Some(<<"aps-environment">>),
                 Some(<<"com.apple.security.application-groups">>),
                 Some(<<"aps-environment", "com.apple.security.application-groups">>) } }

\* The capability steps of one registration before they start.
NoCapabilities ==
    [pc |-> "idle", entitlements |-> None, capabilities |-> <<>>, caps |-> None,
     app_groups |-> None, updates |-> 0, res |-> Unit]

\* ------------------------------------------------ histories and shell
\* What the login has asked of its providers and of the keychain: calls of
\* the credential provider, calls of the code provider and the states they
\* were made in, code requests the UI handled and results it sent back,
\* and whether set_credentials was called.
NoHistory ==
    [cred |-> 0, tfa |-> 0, at |-> {}, processed |-> 0, answered |-> 0,
     written |-> FALSE]

\* A plausible bug: only an entered code is sent back.
tx_send_codes_only(queue, result) ==
    IF result.ok THEN Append(queue, result) ELSE queue

\* tx.send(result) on the code channel, whose receiver the waiting login
\* thread holds.
tx_send(queue, result) == Append(queue, result)

\* -------------------------------------------------- Account::get_anisette
\* The anisette data: the refresh it comes from and whether it has gone
\* stale since.
AnisetteData(gen, stale) == [gen |-> gen, stale |-> stale]

\* AnisetteData::needs_refresh
needs_refresh(data) == data.stale

\* AnisetteData::refresh: new data, or an error.
refresh(data, ok) ==
    IF ok THEN [res |-> Unit, data |-> AnisetteData(data.gen + 1, FALSE)]
    ELSE [res |-> Err(Error("Anisette", 0, <<>>)), data |-> data]

\* A plausible bug: the data is read and refreshed without the lock.
lock_ready_always(holder) == TRUE

\* self.anisette.lock().await completes when no one holds the mutex.
lock_ready(holder) == holder = ""

AnisetteCallers == {"a1", "a2"}

\* One caller of get_anisette: "locking" awaits the mutex, "refreshing" the
\* refresh (holding the mutex), "panicked" is the unwrap of a failed
\* refresh; got is the data the last call returned.
NoAnisetteCall ==
    [pc |-> "idle", calls |-> 0, got |-> AnisetteData(0, FALSE)]

NoAnisette ==
    [data |-> AnisetteData(0, FALSE), holder |-> "",
     call |-> [c \in AnisetteCallers |-> NoAnisetteCall]]

\* ---------------------------------------------- the device list and picker
\* u32::to_string of a device id.
Digits == <<"0", "1", "2", "3", "4", "5", "6", "7", "8", "9">>
to_string(n) == Digits[n + 1]

\* position(|d| d.usbmuxd_device.device_id == device_id): 0 for None.
position(list, device_id) ==
    LET m == { i \in DOMAIN list : list[i] = device_id }
    IN  IF m = {} THEN 0 ELSE MinOf(m)

\* The list without its element at index.
remove(list, index) ==
    [i \in 1..(Len(list) - 1) |-> IF i < index THEN list[i] ELSE list[i + 1]]

\* The handler's device fields and the picker's selection (0: none; the
\* picker's items are the list's, in order).
Devices(list, selected, selection) ==
    [usbmuxd_device_list |-> list, usbmuxd_selected_device_id |-> selected,
     selection |-> selection]
NoDevices == Devices(<<>>, None, 0)

\* usbmuxd_picker_rebuild_contents: clear() drops the picker's selection.
usbmuxd_picker_rebuild_contents(d) == [d EXCEPT !.selection = 0]

\* usbmuxd_picker_select_item
usbmuxd_picker_select_item(d, device_id) ==
    LET index == position(d.usbmuxd_device_list, device_id)
    IN  IF index # 0
        THEN [d EXCEPT !.selection = index,
                       !.usbmuxd_selected_device_id = Some(to_string(device_id))]
        ELSE [d EXCEPT !.usbmuxd_selected_device_id = None]

\* usbmuxd_picker_default_selection: set_selection(0) on the picker raises
\* no selection event, so the selected id stays as it is.
usbmuxd_picker_default_selection(d) ==
    IF d.usbmuxd_device_list # <<>>
    THEN [d EXCEPT !.selection = 1]
    ELSE [d EXCEPT !.usbmuxd_selected_device_id = None]

\* usbmuxd_picker_reconcile_selection
usbmuxd_picker_reconcile_selection(d) ==
    IF d.usbmuxd_selected_device_id.some
    THEN LET m == { i \in DOMAIN d.usbmuxd_device_list :
                       to_string(d.usbmuxd_device_list[i])
                          = d.usbmuxd_selected_device_id.s }
         IN  IF m # {} THEN [d EXCEPT !.selection = MinOf(m)]
             ELSE usbmuxd_picker_default_selection(d)
    ELSE usbmuxd_picker_default_selection(d)

\* -------------------------------------------------------- process_messages
\* TryRecvError and the result of try_recv on the UI's channel: queued
\* messages come first, then Empty, or Disconnected without senders.
try_recv(queue, senders) ==
    IF queue # <<>> THEN [kind |-> "Ok", message |-> Head(queue)]
    ELSE IF senders THEN [kind |-> "Empty", message |-> 0]
    ELSE [kind |-> "Disconnected", message |-> 0]

\* A plausible bug: another idle pass is never asked for.
has_more_never(processed_count) == FALSE

\* has_more at the end of process_messages.
has_more(processed_count) == processed_count = BatchSize

\* The channel (messages are numbered in the order they were sent), the
\* messages handled, and the call of process_messages: its loop counter,
\* the messages it handled, and what the last call returned.
NoMessages ==
    [queue |-> <<>>, sent |-> 0, senders |-> TRUE, handled |-> <<>>,
     pc |-> "idle", i |-> 0, processed_count |-> 0, first |-> 0,
     found |-> "", returned |-> FALSE, passes |-> 0]

\* ================================================================= state
VARIABLES
    pc,            \* where the login thread is
    origin,        \* which thread runs the login: "auto" or "dialog"
    spd,           \* Account.spd of the session being logged in
    state,         \* `response` of the driving loop: the current LoginState
    rounds,        \* password rounds started
    trace,         \* the LoginState tags `response` has taken, in order
    reqs,          \* every request the login sent to the server, in order
    lastResp,      \* the last server response the login read
    loginResult,   \* what login returned (Pending while it runs)
    provFail,      \* the provider that failed, and its message
    tfaCode,       \* the code the two-factor provider returned, until it is used
    lastCall,      \* the last two-factor step invoked
    uiAlive,       \* the UI's message receiver exists
    uiQueue,       \* messages sent to the UI and not handled yet
    replyQueue,    \* results sent on the code channel and not received yet
    cancelled,     \* how the wait for the code was cancelled ("" if not)
    accountLogin,  \* the UI has handled an AccountLogin message
    keychain,      \* credentials are stored in the keychain
    apiResult,     \* the last call on the returned session: result, requests sent
    task,          \* the portal requests running on the session, by requester
    cert,          \* the signing identity: key file, portal certificates, calls of new
    job,           \* a signing run: the package, the bundles found, the bundles signed
    info,          \* the Info.plist of a sub-bundle whose identifiers are rewritten
    embed,         \* the signing of one bundle: its profile, file and entitlements
    reg,           \* a provisioning registration: its sub-bundles and their requests
    ens,           \* the portal's records and the ensure calls running against it
    cap,           \* the capability steps of one registration
    hist,          \* what the login asked of its providers and of the keychain
    ani,           \* the session's anisette data, its lock and the callers of get_anisette
    dev,           \* the UI handler's device list, selected device id and picker
    mq             \* the UI's message channel and the calls of process_messages

vars ==
    <<pc, origin, spd, state, rounds, trace, reqs, lastResp, loginResult,
      provFail, tfaCode, lastCall, uiAlive, uiQueue, replyQueue, cancelled,
      accountLogin, keychain, apiResult, task, cert, job, info, embed, reg, ens, cap,
      hist, ani, dev, mq>>

loginVars ==
    <<spd, state, rounds, trace, reqs, lastResp, loginResult, provFail,
      tfaCode, lastCall>>

uiVars == <<uiAlive, uiQueue, replyQueue, cancelled, accountLogin>>

apiVars == <<apiResult>>

portalVars == <<task>>

certVars == <<cert>>

signerVars == <<job, info, embed, reg, ens, cap>>

shellVars == <<ani, dev, mq>>

\* The requesters that share the session.
Tasks == {"t1", "t2"}

\* One requester: where it is, the call it runs (api, the service whose
\* token it asks for, the JSON:API request type and body), the reply to its
\* token request and the AppToken it got, the portal request it put on the
\* wire, the portal's reply and the result returned to its caller.
IdleTask ==
    [pc |-> "idle", api |-> "", app |-> "", rtype |-> "None", body |-> FALSE,
     tokenResp |-> R0, token |-> NoToken, wire |-> NoWire, reply |-> R0,
     result |-> Pending]

NoResult == [op |-> "", res |-> Pending, sent |-> <<>>]
NoCall == [op |-> "", before |-> "", res |-> Pending, sent |-> 0]
NoProvFail == [who |-> "", msg |-> ""]

\* PlumeFrameMessage: the variant and, for Error, nothing that is read.
Msg(type) == [type |-> type]

\* Result<String, String> of a provider.
CredResults == {[ok |-> TRUE, val |-> "creds"], [ok |-> FALSE, val |-> "no credentials"]}
DialogResults ==
    {[ok |-> TRUE, val |-> c] : c \in Codes} \cup {[ok |-> FALSE, val |-> "2FA cancelled"]}

Init ==
    /\ pc = "idle"
    /\ origin \in {"auto", "dialog"}
    /\ spd = NoSpd
    /\ state = NoState
    /\ rounds = 0
    /\ trace = <<>>
    /\ reqs = <<>>
    /\ lastResp = R0
    /\ loginResult = Pending
    /\ provFail = NoProvFail
    /\ tfaCode = ""
    /\ lastCall = NoCall
    /\ uiAlive = TRUE
    /\ uiQueue = <<>>
    /\ replyQueue = <<>>
    /\ cancelled = ""
    /\ accountLogin = FALSE
    /\ keychain \in BOOLEAN
    /\ apiResult = NoResult
    /\ task = [k \in Tasks |-> IdleTask]
    /\ cert = NoIdentity
    /\ job = NoJob
    /\ info = NoRewrite
    /\ embed = NoSigning
    /\ reg = NoRegistration
    /\ ens = NoEnsures
    /\ cap = NoCapabilities
    /\ hist = NoHistory
    /\ ani = NoAnisette
    /\ dev = NoDevices
    /\ mq = NoMessages

\* login returns `o` (or its thread dies of the panic).
EndLogin(o) ==
    /\ loginResult' = o
    /\ pc' = IF o.kind = "Panic" THEN "dead" ELSE "returned"

\* ------------------------------------------------ the login thread
\* The thread is inside run_login_flow: its code_tx and code_rx exist.
InLoginFlow ==
    pc \in {"creds", "round_init", "round_complete", "loop", "tfa_wait", "verify"}

\* Senders of the code channel: code_tx, owned by run_login_flow, and one
\* clone in each AwaitingTwoFactorCode message the UI has not handled.
ReplySenders ==
    (IF InLoginFlow THEN 1 ELSE 0)
    + Cardinality({i \in 1..Len(uiQueue) : uiQueue[i].type = "AwaitingTwoFactorCode"})

\* The login thread starts: the auto-login thread returns at once without
\* stored credentials; Account::login builds the anisette data and the
\* HTTP client, either of which may fail.
StartLogin ==
    /\ pc = "idle"
    /\ IF origin = "auto" /\ ~keychain
       THEN pc' = "done" /\ UNCHANGED loginResult
       ELSE \E setup \in BOOLEAN :
               IF setup THEN pc' = "creds" /\ UNCHANGED loginResult
               ELSE EndLogin(Err(Error("Anisette", 0, <<>>)))
    /\ UNCHANGED <<origin, spd, state, rounds, trace, reqs, lastResp, provFail,
                   tfaCode, lastCall, keychain>>
    /\ UNCHANGED uiVars
    /\ UNCHANGED apiVars
    /\ UNCHANGED portalVars
    /\ UNCHANGED certVars
    /\ UNCHANGED signerVars
    /\ UNCHANGED shellVars
    /\ UNCHANGED hist

\* appleid_closure().map_err(..)?
GetCredentials ==
    /\ pc = "creds"
    /\ \E r \in CredResults :
          IF r.ok
          THEN pc' = "round_init" /\ UNCHANGED <<loginResult, provFail>>
          ELSE /\ provFail' = [who |-> "cred", msg |-> r.val]
               /\ EndLogin(Err(provider_error("Failed to get Apple ID credentials: ",
                                              r.val)))
    /\ UNCHANGED <<origin, spd, state, rounds, trace, reqs, lastResp, tfaCode,
                   lastCall, keychain>>
    /\ UNCHANGED uiVars
    /\ UNCHANGED apiVars
    /\ UNCHANGED portalVars
    /\ UNCHANGED certVars
    /\ UNCHANGED signerVars
    /\ UNCHANGED shellVars
    /\ hist' = [hist EXCEPT !.cred = @ + 1]

\* login_email_pass, first half: the init request and its response.  Run
\* for the first round and again from NeedsLogin.
LoginEmailPassInit ==
    /\ pc = "round_init" \/ (pc = "loop" /\ state.tag = "NeedsLogin")
    /\ rounds < MaxRounds
    /\ \E r \in InitResponses :
          /\ lastResp' = r
          /\ IF login_email_pass_init(r).kind = "Ok"
             THEN pc' = "round_complete" /\ UNCHANGED loginResult
             ELSE EndLogin(login_email_pass_init(r))
    /\ rounds' = rounds + 1
    /\ reqs' = Append(reqs, Req("init", 0, ""))
    /\ UNCHANGED <<origin, spd, state, trace, provFail, tfaCode, lastCall, keychain>>
    /\ UNCHANGED uiVars
    /\ UNCHANGED apiVars
    /\ UNCHANGED portalVars
    /\ UNCHANGED certVars
    /\ UNCHANGED signerVars
    /\ UNCHANGED shellVars
    /\ UNCHANGED hist

\* login_email_pass, second half: the complete request and its response.
LoginEmailPassComplete ==
    /\ pc = "round_complete"
    /\ \E r \in CompleteResponses :
          LET out == login_email_pass_complete(spd, rounds, r)
          IN  /\ lastResp' = r
              /\ spd' = out.spd
              /\ IF out.res.kind = "Ok"
                 THEN /\ state' = out.res.state
                      /\ trace' = Append(trace, out.res.state.tag)
                      /\ pc' = "loop"
                      /\ UNCHANGED loginResult
                 ELSE /\ EndLogin(out.res)
                      /\ UNCHANGED <<state, trace>>
    /\ reqs' = Append(reqs, Req("complete", 0, ""))
    /\ UNCHANGED <<origin, rounds, provFail, tfaCode, lastCall, keychain>>
    /\ UNCHANGED uiVars
    /\ UNCHANGED apiVars
    /\ UNCHANGED portalVars
    /\ UNCHANGED certVars
    /\ UNCHANGED signerVars
    /\ UNCHANGED shellVars
    /\ UNCHANGED hist

\* One arm of the driving loop that calls a two-factor step: `response`
\* becomes the returned state, or `?` ends the login.
LoopStep(op, r, out) ==
    /\ lastResp' = r
    /\ reqs' = reqs \o out.sent
    /\ lastCall' = [op |-> op, before |-> state.tag, res |-> out.res,
                    sent |-> Len(out.sent)]
    /\ IF out.res.kind = "Ok"
       THEN /\ state' = out.res.state
            /\ trace' = Append(trace, out.res.state.tag)
            /\ pc' = "loop"
            /\ UNCHANGED loginResult
       ELSE /\ EndLogin(out.res)
            /\ UNCHANGED <<state, trace>>
    /\ tfaCode' = ""
    /\ UNCHANGED <<origin, spd, rounds, provFail, keychain>>
    /\ UNCHANGED uiVars
    /\ UNCHANGED apiVars
    /\ UNCHANGED portalVars
    /\ UNCHANGED certVars
    /\ UNCHANGED signerVars
    /\ UNCHANGED shellVars
    /\ UNCHANGED hist

LoopSend2faToDevices ==
    /\ pc = "loop" /\ state.tag = "NeedsDevice2FA"
    /\ \E r \in HttpResponses :
          LoopStep("send_2fa_to_devices", r, send_2fa_to_devices(spd, r))

LoopSendSms2faToDevices ==
    /\ pc = "loop" /\ state.tag = "NeedsSMS2FA"
    /\ \E r \in HttpResponses :
          LoopStep("send_sms_2fa_to_devices", r,
                   send_sms_2fa_to_devices(spd, SmsPhoneId, r))

\* A plausible bug: the code is also asked for when the prompt is sent.
TfaStates_with_device ==
    {"NeedsDevice2FA", "Needs2FAVerification", "NeedsSMS2FAVerification"}

\* The arms of the login loop that call tfa_closure.
TfaStates == {"Needs2FAVerification", "NeedsSMS2FAVerification"}

TfaPrefix ==
    IF state.tag = "Needs2FAVerification" THEN "Failed to get 2FA code: "
    ELSE "Failed to get SMS 2FA code: "

\* tfa_closure, up to its blocking recv: hand the UI a clone of code_tx.
\* With the UI's receiver gone the send fails and the closure fails.
RequestTfaCode ==
    /\ pc = "loop"
    /\ state.tag \in TfaStates
    /\ IF uiAlive
       THEN /\ uiQueue' = Append(uiQueue, Msg("AwaitingTwoFactorCode"))
            /\ pc' = "tfa_wait"
            /\ UNCHANGED <<loginResult, provFail>>
       ELSE /\ provFail' = [who |-> "tfa",
                            msg |-> "Failed to send 2FA request to main thread."]
            /\ EndLogin(Err(provider_error(TfaPrefix,
                              "Failed to send 2FA request to main thread.")))
            /\ UNCHANGED uiQueue
    /\ UNCHANGED <<origin, spd, state, rounds, trace, reqs, lastResp, tfaCode,
                   lastCall, keychain>>
    /\ UNCHANGED <<uiAlive, replyQueue, cancelled, accountLogin>>
    /\ UNCHANGED apiVars
    /\ UNCHANGED portalVars
    /\ UNCHANGED certVars
    /\ UNCHANGED signerVars
    /\ UNCHANGED shellVars
    /\ hist' = [hist EXCEPT !.tfa = @ + 1, !.at = @ \cup {state.tag}]

\* code_rx.recv() returns: a queued result, or Err once no sender is left.
ReceiveTfaCode ==
    /\ pc = "tfa_wait"
    /\ replyQueue # <<>> \/ ReplySenders = 0
    /\ LET r == IF replyQueue # <<>> THEN Head(replyQueue)
                ELSE [ok |-> FALSE,
                      val |-> "2FA process cancelled or main thread error."]
       IN  IF r.ok
           THEN /\ tfaCode' = r.val
                /\ pc' = "verify"
                /\ UNCHANGED <<loginResult, provFail>>
           ELSE /\ provFail' = [who |-> "tfa", msg |-> r.val]
                /\ EndLogin(Err(provider_error(TfaPrefix, r.val)))
                /\ UNCHANGED tfaCode
    /\ replyQueue' = IF replyQueue # <<>> THEN Tail(replyQueue) ELSE replyQueue
    /\ UNCHANGED <<origin, spd, state, rounds, trace, reqs, lastResp, lastCall,
                   keychain>>
    /\ UNCHANGED <<uiAlive, uiQueue, cancelled, accountLogin>>
    /\ UNCHANGED apiVars
    /\ UNCHANGED portalVars
    /\ UNCHANGED certVars
    /\ UNCHANGED signerVars
    /\ UNCHANGED shellVars
    /\ UNCHANGED hist

LoopVerify2fa ==
    /\ pc = "verify" /\ state.tag = "Needs2FAVerification"
    /\ \E r \in ValidateResponses :
          LoopStep("verify_2fa", r, verify_2fa(spd, tfaCode, r))

LoopVerifySms2fa ==
    /\ pc = "verify" /\ state.tag = "NeedsSMS2FAVerification"
    /\ \E r \in HttpResponses :
          LoopStep("verify_sms_2fa", r, verify_sms_2fa(spd, tfaCode, state.body, r))

\* The LoggedIn and NeedsExtraStep arms: login returns.
LoopExit ==
    /\ pc = "loop"
    /\ state.tag \in {"LoggedIn", "NeedsExtraStep"}
    /\ EndLogin(loop_exit(spd, state))
    /\ UNCHANGED <<origin, spd, state, rounds, trace, reqs, lastResp, provFail,
                   tfaCode, lastCall, keychain>>
    /\ UNCHANGED uiVars
    /\ UNCHANGED apiVars
    /\ UNCHANGED portalVars
    /\ UNCHANGED certVars
    /\ UNCHANGED signerVars
    /\ UNCHANGED shellVars
    /\ UNCHANGED hist

\* The messages the thread sends once run_login_flow has returned.
\* A plausible bug: the session is stored but never announced to the UI.
ReportMessages_without_login(saved) ==
    IF loginResult.kind = "Ok"
    THEN IF origin = "dialog" /\ ~saved THEN <<Msg("Error")>> ELSE <<>>
    ELSE IF origin = "auto"
         THEN <<Msg("AccountDeleted"), Msg("Error")>>
         ELSE <<Msg("Error")>>

ReportMessages(saved) ==
    IF loginResult.kind = "Ok"
    THEN IF origin = "dialog" /\ ~saved
         THEN <<Msg("AccountLogin"), Msg("Error")>>
         ELSE <<Msg("AccountLogin")>>
    ELSE IF origin = "auto"
         THEN <<Msg("AccountDeleted"), Msg("Error")>>
         ELSE <<Msg("Error")>>

\* After run_login_flow: report to the UI (a send to a dropped receiver is
\* ignored); the login dialog's thread then stores the credentials.
ReportLogin ==
    /\ pc = "returned"
    /\ \E saved \in BOOLEAN :
          /\ uiQueue' = IF uiAlive THEN uiQueue \o ReportMessages(saved) ELSE uiQueue
          /\ keychain' = IF loginResult.kind = "Ok" /\ origin = "dialog" /\ saved
                         THEN TRUE ELSE keychain
    /\ pc' = "done"
    /\ UNCHANGED origin
    /\ UNCHANGED loginVars
    /\ UNCHANGED <<uiAlive, replyQueue, cancelled, accountLogin>>
    /\ UNCHANGED apiVars
    /\ UNCHANGED portalVars
    /\ UNCHANGED certVars
    /\ UNCHANGED signerVars
    /\ UNCHANGED shellVars
    /\ hist' = [hist EXCEPT !.written = @ \/ (loginResult.kind = "Ok" /\ origin = "dialog")]

\* ------------------------------------------------ the UI message handler
\* handle_message of the next queued message.
UiTake(type) ==
    /\ uiAlive
    /\ uiQueue # <<>>
    /\ Head(uiQueue).type = type
    /\ uiQueue' = Tail(uiQueue)

\* AwaitingTwoFactorCode(tx): show the code dialog, send its result on tx.
UiAwaitingTwoFactorCode ==
    /\ UiTake("AwaitingTwoFactorCode")
    /\ \E d \in DialogResults :
          /\ replyQueue' = tx_send(replyQueue, d)
          /\ cancelled' = IF d.ok THEN cancelled ELSE "dialog"
    /\ UNCHANGED <<pc, origin, keychain, uiAlive, accountLogin>>
    /\ UNCHANGED loginVars
    /\ UNCHANGED apiVars
    /\ UNCHANGED portalVars
    /\ UNCHANGED certVars
    /\ UNCHANGED signerVars
    /\ UNCHANGED shellVars
    /\ hist' = [hist EXCEPT !.processed = @ + 1,
                             !.answered = @ + Len(replyQueue') - Len(replyQueue)]

UiAccountLogin ==
    /\ UiTake("AccountLogin")
    /\ accountLogin' = TRUE
    /\ UNCHANGED <<pc, origin, keychain, uiAlive, replyQueue, cancelled>>
    /\ UNCHANGED loginVars
    /\ UNCHANGED apiVars
    /\ UNCHANGED portalVars
    /\ UNCHANGED certVars
    /\ UNCHANGED signerVars
    /\ UNCHANGED shellVars
    /\ UNCHANGED hist

\* AccountDeleted: nothing without an account; else delete the stored
\* credentials, and forget the account unless the deletion fails.
UiAccountDeleted ==
    /\ UiTake("AccountDeleted")
    /\ IF ~accountLogin
       THEN UNCHANGED <<accountLogin, keychain>>
       ELSE \E deleted \in BOOLEAN :
               /\ accountLogin' = IF deleted THEN FALSE ELSE accountLogin
               /\ keychain' = IF deleted THEN FALSE ELSE keychain
    /\ UNCHANGED <<pc, origin, uiAlive, replyQueue, cancelled>>
    /\ UNCHANGED loginVars
    /\ UNCHANGED apiVars
    /\ UNCHANGED portalVars
    /\ UNCHANGED certVars
    /\ UNCHANGED signerVars
    /\ UNCHANGED shellVars
    /\ UNCHANGED hist

UiError ==
    /\ UiTake("Error")
    /\ UNCHANGED <<pc, origin, keychain, uiAlive, replyQueue, cancelled, accountLogin>>
    /\ UNCHANGED loginVars
    /\ UNCHANGED apiVars
    /\ UNCHANGED portalVars
    /\ UNCHANGED certVars
    /\ UNCHANGED signerVars
    /\ UNCHANGED shellVars
    /\ UNCHANGED hist

\* The handler and its receiver are dropped: every queued message goes with
\* it, and with an AwaitingTwoFactorCode message its clone of code_tx.
UiShutdown ==
    /\ uiAlive
    /\ uiAlive' = FALSE
    /\ uiQueue' = <<>>
    /\ cancelled' = IF \E i \in 1..Len(uiQueue) :
                          uiQueue[i].type = "AwaitingTwoFactorCode"
                    THEN "closed" ELSE cancelled
    /\ UNCHANGED <<pc, origin, keychain, replyQueue, accountLogin>>
    /\ UNCHANGED loginVars
    /\ UNCHANGED apiVars
    /\ UNCHANGED portalVars
    /\ UNCHANGED certVars
    /\ UNCHANGED signerVars
    /\ UNCHANGED shellVars
    /\ UNCHANGED hist

\* ------------------------------------- calls on the returned session
\* The UI holds the session (account_credentials is Some); any pub method
\* of Account may be called on it.  The session's current LoginState is the
\* one login returned with: `state`.
SessionHeld ==
    /\ pc = "done"
    /\ loginResult.kind = "Ok"
    /\ accountLogin

\* One call: its result and the requests it sent are recorded.
ApiCall(op, out) ==
    /\ apiResult' = [op |-> op, res |-> out.res, sent |-> out.sent]
    /\ UNCHANGED <<pc, origin, keychain>>
    /\ UNCHANGED loginVars
    /\ UNCHANGED uiVars
    /\ UNCHANGED portalVars
    /\ UNCHANGED certVars
    /\ UNCHANGED signerVars
    /\ UNCHANGED shellVars
    /\ UNCHANGED hist

ApiSend2faToDevices ==
    /\ SessionHeld
    /\ \E r \in HttpResponses :
          ApiCall("send_2fa_to_devices", send_2fa_to_devices(spd, r))

ApiSendSms2faToDevices ==
    /\ SessionHeld
    /\ \E r \in HttpResponses :
          ApiCall("send_sms_2fa_to_devices",
                  send_sms_2fa_to_devices(spd, SmsPhoneId, r))

ApiVerify2fa ==
    /\ SessionHeld
    /\ \E r \in ValidateResponses, code \in Codes :
          ApiCall("verify_2fa", verify_2fa(spd, code, r))

\* The VerifyBody is one an earlier NeedsSMS2FAVerification state (or
\* get_auth_extras) gave the caller.
ApiVerifySms2fa ==
    /\ SessionHeld
    /\ \E r \in HttpResponses, code \in Codes :
          ApiCall("verify_sms_2fa",
                  verify_sms_2fa(spd, code, VerifyBody(SmsPhoneId, "sms", ""), r))

ApiGetAppToken ==
    /\ SessionHeld
    /\ \E r \in AppTokenResponses, app \in {AppName, OtherService} :
          ApiCall("get_app_token", get_app_token(spd, app, r))

ApiSendRequest ==
    /\ SessionHeld
    /\ \E dialect \in {"qh", "v1"}, rt \in AppTokenResponses :
          IF get_app_token(spd, AppName, rt).res.kind # "Ok"
          THEN ApiCall(dialect, send_request(spd, dialect, rt, R0))
          ELSE \E r \in PortalResponses :
                  ApiCall(dialect, send_request(spd, dialect, rt, r))

\* ------------------------------- portal requests sharing the session
\* The session after a login that returned LoggedIn and was handed to the
\* UI: the payload of its password round is the session dictionary.
SessionInit ==
    /\ pc = "done"
    /\ origin = "dialog"
    /\ \E ids \in BOOLEAN :
          /\ spd = SomeSpd(1, "absent", ids)
          /\ lastResp = [R0 EXCEPT !.kind = "complete", !.ids = ids]
    /\ state = LoggedIn
    /\ rounds = 1
    /\ trace = <<"LoggedIn">>
    /\ reqs = <<Req("init", 0, ""), Req("complete", 0, "")>>
    /\ loginResult = Ok(LoggedIn)
    /\ provFail = NoProvFail
    /\ tfaCode = ""
    /\ lastCall = NoCall
    /\ uiAlive = TRUE
    /\ uiQueue = <<>>
    /\ replyQueue = <<>>
    /\ cancelled = ""
    /\ accountLogin = TRUE
    /\ keychain = TRUE
    /\ apiResult = NoResult

PortalInit ==
    /\ SessionInit
    /\ task = [k \in Tasks |-> IdleTask]
    /\ cert = NoIdentity
    /\ job = NoJob
    /\ info = NoRewrite
    /\ embed = NoSigning
    /\ reg = NoRegistration
    /\ ens = NoEnsures
    /\ cap = NoCapabilities
    /\ hist = NoHistory
    /\ ani = NoAnisette
    /\ dev = NoDevices
    /\ mq = NoMessages

\* The token replies drawn for a portal request: an intact token, an
\* altered one, a failed exchange and an error reply.
PortalTokenResponses ==
    { [R0 EXCEPT !.kind = "apptokens"],
      [R0 EXCEPT !.kind = "apptokens", !.et = "tampered"],
      [R0 EXCEPT !.kind = "apptokens", !.net = "err"],
      [R0 EXCEPT !.kind = "apptokens", !.ec = -22406, !.hasEm = TRUE, !.em = "Locked"] }

\* A call starts: get_app_token reads the session dictionary (and panics
\* without its identity entries), then posts the "apptokens" request.
StartCall(k, api, app, rtype, body) ==
    /\ SessionHeld
    /\ task[k].pc = "idle"
    /\ task' = [task EXCEPT ![k] =
                    IF spd.some /\ spd.ids
                    THEN [@ EXCEPT !.pc = "token", !.api = api, !.app = app,
                                   !.rtype = rtype, !.body = body]
                    ELSE [@ EXCEPT !.pc = "dead", !.api = api, !.app = app,
                                   !.rtype = rtype, !.body = body,
                                   !.result = Panic]]
    /\ UNCHANGED <<pc, origin, keychain>>
    /\ UNCHANGED loginVars
    /\ UNCHANGED uiVars
    /\ UNCHANGED apiVars
    /\ UNCHANGED certVars
    /\ UNCHANGED signerVars
    /\ UNCHANGED shellVars
    /\ UNCHANGED hist

StartGetAppToken(k) ==
    \E app \in {AppName, OtherService} :
       StartCall(k, "get_app_token", app, "None", FALSE)

\* DeveloperSession::qh_send_request always hands the account a body (the
\* request id and the caller's entries).
StartQhRequest(k) ==
    StartCall(k, "qh", AppName, "None", TRUE)

StartV1Request(k) ==
    \E rtype \in {"None", "Get", "Post", "Patch"}, body \in BOOLEAN :
       StartCall(k, "v1", AppName, rtype, body)

\* The reply to the token request arrives: get_app_token returns; a portal
\* call then fails with it or puts its own request on the wire.
TokenReply(k) ==
    /\ task[k].pc = "token"
    /\ \E r \in IF task[k].api = "get_app_token" THEN AppTokenResponses
                 ELSE PortalTokenResponses :
          LET tok == get_app_token(spd, task[k].app, r)
          IN  task' = [task EXCEPT ![k] =
                 IF task[k].api = "get_app_token"
                 THEN [@ EXCEPT !.pc = IF tok.res.kind = "Panic" THEN "dead" ELSE "done",
                                !.tokenResp = r, !.token = tok.token,
                                !.result = tok.res]
                 ELSE IF tok.res.kind # "Ok"
                 THEN [@ EXCEPT !.pc = "done", !.tokenResp = r,
                                !.result = IF task[k].api = "qh"
                                           THEN dev_qh_send_request(tok.res, R0)
                                           ELSE dev_v1_send_request(tok.res, R0)]
                 ELSE [@ EXCEPT !.pc = "portal", !.tokenResp = r, !.token = tok.token,
                                !.wire = IF task[k].api = "qh"
                                         THEN qh_wire(task[k].body)
                                         ELSE v1_wire(task[k].rtype, task[k].body)]]
    /\ UNCHANGED <<pc, origin, keychain>>
    /\ UNCHANGED loginVars
    /\ UNCHANGED uiVars
    /\ UNCHANGED apiVars
    /\ UNCHANGED certVars
    /\ UNCHANGED signerVars
    /\ UNCHANGED shellVars
    /\ UNCHANGED hist

\* The portal's reply to a legacy request arrives.
QhReply(k) ==
    /\ task[k].pc = "portal"
    /\ task[k].api = "qh"
    /\ \E r \in QhReplies :
          task' = [task EXCEPT ![k] =
                      [@ EXCEPT !.pc = "done", !.reply = r,
                                !.result = dev_qh_send_request(
                                              send_request(spd, "qh", task[k].tokenResp,
                                                           r).res, r)]]
    /\ UNCHANGED <<pc, origin, keychain>>
    /\ UNCHANGED loginVars
    /\ UNCHANGED uiVars
    /\ UNCHANGED apiVars
    /\ UNCHANGED certVars
    /\ UNCHANGED signerVars
    /\ UNCHANGED shellVars
    /\ UNCHANGED hist

\* The portal's reply to a JSON:API request arrives.
V1Reply(k) ==
    /\ task[k].pc = "portal"
    /\ task[k].api = "v1"
    /\ \E r \in V1Replies :
          task' = [task EXCEPT ![k] =
                      [@ EXCEPT !.pc = "done", !.reply = r,
                                !.result = dev_v1_send_request(
                                              send_request(spd, "v1", task[k].tokenResp,
                                                           r).res, r)]]
    /\ UNCHANGED <<pc, origin, keychain>>
    /\ UNCHANGED loginVars
    /\ UNCHANGED uiVars
    /\ UNCHANGED apiVars
    /\ UNCHANGED certVars
    /\ UNCHANGED signerVars
    /\ UNCHANGED shellVars
    /\ UNCHANGED hist

PortalNext ==
    \/ \E k \in Tasks : StartGetAppToken(k)
    \/ \E k \in Tasks : StartQhRequest(k)
    \/ \E k \in Tasks : StartV1Request(k)
    \/ \E k \in Tasks : TokenReply(k)
    \/ \E k \in Tasks : QhReply(k)
    \/ \E k \in Tasks : V1Reply(k)

PortalSpec == PortalInit /\ [][PortalNext]_vars

\* ------------------- CertificateIdentity::new, one call after another
\* The session is held and can ask for tokens; the account's key file is
\* absent or holds a key, and the team holds some certificates.
CertInit ==
    /\ SessionInit
    /\ spd.ids
    /\ task = [k \in Tasks |-> IdleTask]
    /\ \E file \in {NoFile, to_pkcs8_pem(DiskKey)}, certs \in PortalLists :
          cert = [NoIdentity EXCEPT !.keyFile = file, !.portal = certs]
    /\ job = NoJob
    /\ info = NoRewrite
    /\ embed = NoSigning
    /\ reg = NoRegistration
    /\ ens = NoEnsures
    /\ cap = NoCapabilities
    /\ hist = NoHistory
    /\ ani = NoAnisette
    /\ dev = NoDevices
    /\ mq = NoMessages

\* The record of the call with the outcome of its last step filled in.
Settle(log, st) == [log EXCEPT ![Len(log)].st = st]

\* Steps of a kind in the record of the call.
Steps(log, op) == { i \in 1..Len(log) : log[i].op = op }

\* The match on the result of qh_submit_cert_csr in the loop of
\* request_new_certificate.
on_submit(res) ==
    IF res.kind = "Ok" THEN "issued"
    ELSE IF res.err.type = "DeveloperSession" /\ res.err.code = QuotaExceeded
    THEN "quota"
    ELSE "failed"

\* A plausible bug: the certificate is kept but not written to its file.
Return_skips_cert_file(c, log, res, certificate) ==
    [c EXCEPT !.pc = "done", !.log = log, !.result = res,
              !.certificate = certificate]

\* The call ends: what it returns and what the identity then holds.
Return(c, log, res, certificate) ==
    [c EXCEPT !.pc = "done", !.log = log, !.result = res,
              !.certificate = certificate,
              !.certFile = IF res.kind = "Ok" THEN certificate.certificate_id ELSE @]

\* new is called: the key is loaded or generated and written, and the
\* request of find_matching_certificate for the list goes out.
CertNew ==
    /\ SessionHeld
    /\ cert.pc \in {"idle", "done"}
    /\ cert.calls < MaxCalls
    /\ \E fs \in FsOutcomes :
          LET k == load_or_generate_key(cert.keyFile, cert.generated, fs)
              c == [cert EXCEPT !.calls = @ + 1, !.prev = cert.result.kind,
                                !.keyFile = k.keyFile,
                                !.generated = k.generated, !.key = k.key,
                                !.seen = NoListing, !.target = 0, !.csr = 0,
                                !.certificate = NoCert, !.result = Pending]
          IN  cert' = IF k.res.kind = "Ok"
                      THEN [c EXCEPT !.pc = "find",
                                     !.log = k.log \o <<Ev("list", "sent")>>]
                      ELSE Return(c, k.log, k.res, NoCert)
    /\ UNCHANGED <<pc, origin, keychain>>
    /\ UNCHANGED loginVars
    /\ UNCHANGED uiVars
    /\ UNCHANGED apiVars
    /\ UNCHANGED portalVars
    /\ UNCHANGED signerVars
    /\ UNCHANGED shellVars
    /\ UNCHANGED hist

\* The list asked for by find_matching_certificate arrives, or the request
\* fails: a matching certificate is written to the certificate file and
\* returned; in every other case request_new_certificate submits a CSR.
FindReply ==
    /\ cert.pc = "find"
    /\ \E res \in QhResults, w \in {"ok", "write_fails"} :
          LET listing == qh_list_certs(res, cert.portal)
              f == find_matching_certificate(cert.key, MachineName, listing)
              log == Settle(cert.log, IF listing.res.kind = "Ok" THEN "ok" ELSE "failed")
              c == [cert EXCEPT !.seen = listing]
          IN  cert' = IF f.res.kind = "Ok"
                      THEN IF w = "ok"
                           THEN Return(c, log \o <<Ev("write_cert", "ok")>>, Unit, f.cert)
                           ELSE Return(c, log \o <<Ev("write_cert", "failed")>>,
                                       Err(IoError), NoCert)
                      ELSE [c EXCEPT !.pc = "submit",
                                     !.log = log \o <<Ev("submit", "sent")>>]
    /\ UNCHANGED <<pc, origin, keychain>>
    /\ UNCHANGED loginVars
    /\ UNCHANGED uiVars
    /\ UNCHANGED apiVars
    /\ UNCHANGED portalVars
    /\ UNCHANGED signerVars
    /\ UNCHANGED shellVars
    /\ UNCHANGED hist

\* The reply to the CSR arrives: the certificate is issued and the list is
\* asked for; or the quota is used up and the list is asked for; or the
\* call ends with the error.
SubmitReply ==
    /\ cert.pc = "submit"
    /\ \E res \in QhResults :
          cert' =
             CASE on_submit(res) = "issued" ->
                    [cert EXCEPT !.pc = "fetch", !.issued = @ + 1,
                                 !.csr = MaxCerts + cert.issued + 1,
                                 !.log = Settle(@, "ok") \o <<Ev("list", "sent")>>]
               [] on_submit(res) = "quota" ->
                    [cert EXCEPT !.pc = "quota_list",
                                 !.log = Settle(@, "quota") \o <<Ev("list", "sent")>>]
               [] OTHER ->
                    Return(cert, Settle(cert.log, "failed"),
                           Err(CertificateError("Submit CSR failed")), NoCert)
    /\ UNCHANGED <<pc, origin, keychain>>
    /\ UNCHANGED loginVars
    /\ UNCHANGED uiVars
    /\ UNCHANGED apiVars
    /\ UNCHANGED portalVars
    /\ UNCHANGED signerVars
    /\ UNCHANGED shellVars
    /\ UNCHANGED hist

\* The list asked for after a quota failure arrives: the first certificate
\* with this machine's label is revoked by serial number; without one, or
\* without a list, the call ends.
QuotaListReply ==
    /\ cert.pc = "quota_list"
    /\ \E res \in QhResults :
          LET listing == qh_list_certs(res, cert.portal)
              i == find_by_machine_name(MachineName, listing.certificates)
          IN  cert' =
                 IF listing.res.kind # "Ok"
                 THEN Return(cert, Settle(cert.log, "failed"), listing.res, NoCert)
                 ELSE IF i = 0
                 THEN Return(cert, Settle(cert.log, "ok"),
                             Err(CertificateError("Too many certificates")), NoCert)
                 ELSE [cert EXCEPT !.pc = "revoke",
                                   !.target = listing.certificates[i].serial_number,
                                   !.log = Settle(@, "ok") \o <<Ev("revoke", "sent")>>]
    /\ UNCHANGED <<pc, origin, keychain>>
    /\ UNCHANGED loginVars
    /\ UNCHANGED uiVars
    /\ UNCHANGED apiVars
    /\ UNCHANGED portalVars
    /\ UNCHANGED signerVars
    /\ UNCHANGED shellVars
    /\ UNCHANGED hist

\* The reply to the revocation arrives: the CSR is submitted again, or the
\* call ends with the error.
RevokeReply ==
    /\ cert.pc = "revoke"
    /\ \E res \in QhResults :
          cert' = IF res.kind = "Ok"
                  THEN [cert EXCEPT !.pc = "submit",
                                    !.portal = Revoked(@, cert.target),
                                    !.log = Settle(@, "ok") \o <<Ev("submit", "sent")>>]
                  ELSE Return(cert, Settle(cert.log, "failed"),
                              Err(CertificateError("Failed to revoke certificate")),
                              NoCert)
    /\ UNCHANGED <<pc, origin, keychain>>
    /\ UNCHANGED loginVars
    /\ UNCHANGED uiVars
    /\ UNCHANGED apiVars
    /\ UNCHANGED portalVars
    /\ UNCHANGED signerVars
    /\ UNCHANGED shellVars
    /\ UNCHANGED hist

\* The list asked for after the submission arrives, with the issued
\* certificate in it (readable or not) or not yet: the certificate is
\* looked up by id, parsed, written to the certificate file and kept.
FetchReply ==
    /\ cert.pc = "fetch"
    /\ \E res \in QhResults, listed \in {"yes", "no", "unreadable"},
          w \in {"ok", "write_fails"} :
          LET new == Cert(MachineName, cert.key, listed = "yes", cert.csr)
              certs == IF listed = "no" THEN cert.portal ELSE Append(cert.portal, new)
              listing == qh_list_certs(res, certs)
              i == find_by_certificate_id(cert.csr, listing.certificates)
              c == [cert EXCEPT !.portal = IF listed = "yes" THEN certs ELSE @]
          IN  cert' =
                 IF listing.res.kind # "Ok"
                 THEN Return(c, Settle(cert.log, "failed"), listing.res, NoCert)
                 ELSE IF i = 0
                 THEN Return(c, Settle(cert.log, "ok"),
                             Err(CertificateError("Certificate not found after submission")),
                             NoCert)
                 ELSE IF ~listing.certificates[i].der
                 THEN Return(c, Settle(cert.log, "ok"),
                             Err(CertificateError("Failed to parse DER")), NoCert)
                 ELSE IF w = "ok"
                 THEN Return(c, Settle(cert.log, "ok") \o <<Ev("write_cert", "ok")>>,
                             Unit, listing.certificates[i])
                 ELSE Return(c, Settle(cert.log, "ok") \o <<Ev("write_cert", "failed")>>,
                             Err(IoError), NoCert)
    /\ UNCHANGED <<pc, origin, keychain>>
    /\ UNCHANGED loginVars
    /\ UNCHANGED uiVars
    /\ UNCHANGED apiVars
    /\ UNCHANGED portalVars
    /\ UNCHANGED signerVars
    /\ UNCHANGED shellVars
    /\ UNCHANGED hist

CertNext ==
    \/ CertNew
    \/ FindReply
    \/ SubmitReply
    \/ QuotaListReply
    \/ RevokeReply
    \/ FetchReply

CertSpec == CertInit /\ [][CertNext]_vars

\* --------------------------------------------------- a signing run
\* A package on disk; nothing has been read yet.
SignInit ==
    /\ SessionInit
    /\ spd.ids
    /\ task = [k \in Tasks |-> IdleTask]
    /\ cert = NoIdentity
    /\ \E t \in Packages : job = [NoJob EXCEPT !.package = t]
    /\ info = NoRewrite
    /\ embed = NoSigning
    /\ reg = NoRegistration
    /\ ens = NoEnsures
    /\ cap = NoCapabilities
    /\ hist = NoHistory
    /\ ani = NoAnisette
    /\ dev = NoDevices
    /\ mq = NoMessages

\* Bundle::get_embedded_bundles on the root bundle.
GetEmbeddedBundles ==
    /\ job.pc = "idle"
    /\ job' = [job EXCEPT !.pc = "listed",
                          !.listed = collect_embeded_bundles_from_dir(job.package, 0)]
    /\ UNCHANGED <<pc, origin, keychain>>
    /\ UNCHANGED loginVars
    /\ UNCHANGED uiVars
    /\ UNCHANGED apiVars
    /\ UNCHANGED portalVars
    /\ UNCHANGED certVars
    /\ UNCHANGED info
    /\ UNCHANGED embed
    /\ UNCHANGED reg
    /\ UNCHANGED ens
    /\ UNCHANGED cap
    /\ UNCHANGED shellVars
    /\ UNCHANGED hist

\* A signer starts on the package, with or without provisioning profiles:
\* ldid2's Signer::sign lists the embedded bundles and sorts them with the
\* root; Signer::sign_bundle takes the list of collect_bundles_sorted.
SignStart ==
    /\ job.pc = "listed"
    /\ \E signer \in {"ldid2", "utils"}, supplied \in BOOLEAN :
          LET embedded == collect_embeded_bundles_from_dir(job.package, 0)
          IN  job' = [job EXCEPT !.pc = "signing", !.signer = signer,
                                 !.supplied = supplied, !.embedded = embedded,
                                 !.bundles = IF signer = "ldid2"
                                             THEN sorted_bundles(job.package, embedded,
                                                                 RootBundle)
                                             ELSE collect_bundles_sorted(job.package)]
    /\ UNCHANGED <<pc, origin, keychain>>
    /\ UNCHANGED loginVars
    /\ UNCHANGED uiVars
    /\ UNCHANGED apiVars
    /\ UNCHANGED portalVars
    /\ UNCHANGED certVars
    /\ UNCHANGED info
    /\ UNCHANGED embed
    /\ UNCHANGED reg
    /\ UNCHANGED ens
    /\ UNCHANGED cap
    /\ UNCHANGED shellVars
    /\ UNCHANGED hist

\* The next bundle of the list is signed in place: ldid2 indexes the first
\* profile for an App or AppExtension and panics without one; the signing
\* primitive runs and succeeds, or fails and ends the run.
SignOne ==
    /\ job.pc = "signing"
    /\ Len(job.signed) < Len(job.bundles)
    /\ LET b == job.bundles[Len(job.signed) + 1]
       IN  IF job.signer = "ldid2" /\ b.type \in {"App", "AppExtension"} /\ ~job.supplied
           THEN job' = [job EXCEPT !.pc = "dead", !.result = Panic]
           ELSE \E ok \in BOOLEAN :
                   job' = [job EXCEPT !.signed = Append(@, b.dir),
                                      !.pc = IF ok THEN @ ELSE "done",
                                      !.result = IF ok THEN @ ELSE Err(CodesignError)]
    /\ UNCHANGED <<pc, origin, keychain>>
    /\ UNCHANGED loginVars
    /\ UNCHANGED uiVars
    /\ UNCHANGED apiVars
    /\ UNCHANGED portalVars
    /\ UNCHANGED certVars
    /\ UNCHANGED info
    /\ UNCHANGED embed
    /\ UNCHANGED reg
    /\ UNCHANGED ens
    /\ UNCHANGED cap
    /\ UNCHANGED shellVars
    /\ UNCHANGED hist

\* Every bundle of the list is signed: the key is finished and the run
\* returns.
SignFinish ==
    /\ job.pc = "signing"
    /\ Len(job.signed) = Len(job.bundles)
    /\ job' = [job EXCEPT !.pc = "done", !.result = Unit]
    /\ UNCHANGED <<pc, origin, keychain>>
    /\ UNCHANGED loginVars
    /\ UNCHANGED uiVars
    /\ UNCHANGED apiVars
    /\ UNCHANGED portalVars
    /\ UNCHANGED certVars
    /\ UNCHANGED info
    /\ UNCHANGED embed
    /\ UNCHANGED reg
    /\ UNCHANGED ens
    /\ UNCHANGED cap
    /\ UNCHANGED shellVars
    /\ UNCHANGED hist

SignNext ==
    \/ GetEmbeddedBundles
    \/ SignStart
    \/ SignOne
    \/ SignFinish

SignSpec == SignInit /\ [][SignNext]_vars

\* ------------------------------------------- identifier rewriting
\* The Info.plist of a sub-bundle, the identifier of the root bundle and
\* the options of the run.
RewriteInit ==
    /\ SessionInit
    /\ spd.ids
    /\ task = [k \in Tasks |-> IdleTask]
    /\ cert = NoIdentity
    /\ job = NoJob
    /\ \E plist \in InfoPlists, identifier \in RootIdentifiers,
          custom \in CustomIdentifiers, export \in BOOLEAN,
          team_id \in {None, Some(<<"T">>)} :
          info = [NoRewrite EXCEPT !.plist = plist, !.before = plist,
                                   !.identifier = identifier, !.custom = custom,
                                   !.export = export, !.team_id = team_id]
    /\ embed = NoSigning
    /\ reg = NoRegistration
    /\ ens = NoEnsures
    /\ cap = NoCapabilities
    /\ hist = NoHistory
    /\ ani = NoAnisette
    /\ dev = NoDevices
    /\ mq = NoMessages

\* modify_bundle settles the identifier to rewrite to; without one no
\* sub-bundle is touched.
ModifyBundle ==
    /\ info.pc = "idle"
    /\ LET new == custom_identifier(info.export, info.custom, info.identifier,
                                    info.team_id)
       IN  info' = [info EXCEPT !.custom = new,
                                !.pc = IF new.some THEN "rewrite" ELSE "done"]
    /\ UNCHANGED <<pc, origin, keychain>>
    /\ UNCHANGED loginVars
    /\ UNCHANGED uiVars
    /\ UNCHANGED apiVars
    /\ UNCHANGED portalVars
    /\ UNCHANGED certVars
    /\ UNCHANGED job
    /\ UNCHANGED embed
    /\ UNCHANGED reg
    /\ UNCHANGED ens
    /\ UNCHANGED cap
    /\ UNCHANGED shellVars
    /\ UNCHANGED hist

\* set_matching_identifier on the sub-bundle: the file is read, rewritten
\* in memory and written back if something changed.
SetMatchingIdentifier ==
    /\ info.pc = "rewrite"
    /\ LET r == set_matching_identifier(info.plist, info.identifier, info.custom.s)
       IN  info' = [info EXCEPT !.pc = "done",
                                !.plist = IF r.did_change THEN r.plist ELSE @,
                                !.writes = IF r.did_change THEN @ + 1 ELSE @]
    /\ UNCHANGED <<pc, origin, keychain>>
    /\ UNCHANGED loginVars
    /\ UNCHANGED uiVars
    /\ UNCHANGED apiVars
    /\ UNCHANGED portalVars
    /\ UNCHANGED certVars
    /\ UNCHANGED job
    /\ UNCHANGED embed
    /\ UNCHANGED reg
    /\ UNCHANGED ens
    /\ UNCHANGED cap
    /\ UNCHANGED shellVars
    /\ UNCHANGED hist

RewriteNext ==
    \/ ModifyBundle
    \/ SetMatchingIdentifier

RewriteSpec == RewriteInit /\ [][RewriteNext]_vars

\* -------------------------------------------- signing one bundle
\* A bundle of the package, the profiles the signer holds and the signer.
EmbedInit ==
    /\ SessionInit
    /\ spd.ids
    /\ task = [k \in Tasks |-> IdleTask]
    /\ cert = NoIdentity
    /\ job = NoJob
    /\ info = NoRewrite
    /\ \E bundle \in SignedBundles,
          provisioning_files \in UNION { [1..n -> Profiles] : n \in 0..MaxProfiles },
          signer \in {"utils", "grand_slam"}, should_embed \in BOOLEAN :
          /\ signer = "utils" => should_embed
          /\ embed = [NoSigning EXCEPT !.bundle = bundle, !.signer = signer,
                         !.provisioning_files = provisioning_files,
                         !.should_embed_provisioning = should_embed]
    /\ reg = NoRegistration
    /\ ens = NoEnsures
    /\ cap = NoCapabilities
    /\ hist = NoHistory
    /\ ani = NoAnisette
    /\ dev = NoDevices
    /\ mq = NoMessages

\* utils: Signer::sign_single_bundle on the bundle.
SignSingleBundle ==
    /\ embed.pc = "idle"
    /\ embed.signer = "utils"
    /\ \E write_ok, sign_ok \in BOOLEAN :
          embed' = [embed EXCEPT !.pc = "done",
                       !.out = sign_single_bundle(embed.bundle, embed.provisioning_files,
                                                  write_ok, sign_ok)]
    /\ UNCHANGED <<pc, origin, keychain>>
    /\ UNCHANGED loginVars
    /\ UNCHANGED uiVars
    /\ UNCHANGED apiVars
    /\ UNCHANGED portalVars
    /\ UNCHANGED certVars
    /\ UNCHANGED job
    /\ UNCHANGED info
    /\ UNCHANGED reg
    /\ UNCHANGED ens
    /\ UNCHANGED cap
    /\ UNCHANGED shellVars
    /\ UNCHANGED hist

\* grand_slam: one pass of the loop of Signer::sign on the bundle.
SignOneBundle ==
    /\ embed.pc = "idle"
    /\ embed.signer = "grand_slam"
    /\ \E write_ok, sign_ok \in BOOLEAN :
          embed' = [embed EXCEPT !.pc = "done",
                       !.out = sign_one(embed.bundle, embed.provisioning_files,
                                        embed.should_embed_provisioning,
                                        write_ok, sign_ok)]
    /\ UNCHANGED <<pc, origin, keychain>>
    /\ UNCHANGED loginVars
    /\ UNCHANGED uiVars
    /\ UNCHANGED apiVars
    /\ UNCHANGED portalVars
    /\ UNCHANGED certVars
    /\ UNCHANGED job
    /\ UNCHANGED info
    /\ UNCHANGED reg
    /\ UNCHANGED ens
    /\ UNCHANGED cap
    /\ UNCHANGED shellVars
    /\ UNCHANGED hist

EmbedNext ==
    \/ SignSingleBundle
    \/ SignOneBundle

EmbedSpec == EmbedInit /\ [][EmbedNext]_vars

\* ------------------------------------------ provisioning registration
\* The sorted sub-bundles of the package, the option and the caller:
\* Signer::register_bundle ("utils") or the install handler ("frame").
RegInit ==
    /\ SessionInit
    /\ spd.ids
    /\ task = [k \in Tasks |-> IdleTask]
    /\ cert = NoIdentity
    /\ job = NoJob
    /\ info = NoRewrite
    /\ embed = NoSigning
    /\ \E bundles \in BundleLists, single_profile \in BOOLEAN,
          signer \in {"utils", "frame"} :
          reg = [NoRegistration EXCEPT
                    !.bundles = bundles, !.single_profile = single_profile,
                    !.signer = signer,
                    !.fut = [i \in DOMAIN bundles |-> Future("waiting", <<>>)]]
    /\ ens = NoEnsures
    /\ cap = NoCapabilities
    /\ hist = NoHistory
    /\ ani = NoAnisette
    /\ dev = NoDevices
    /\ mq = NoMessages

\* Signer::register_bundle up to its try_join_all: the futures of the
\* sub-bundles that pass the filter are built and polled.
RegisterBundle ==
    /\ reg.pc = "idle"
    /\ reg.signer = "utils"
    /\ reg' = settle(reg, first_poll(reg.bundles, reg.single_profile, reg.signer))
    /\ UNCHANGED <<pc, origin, keychain>>
    /\ UNCHANGED loginVars
    /\ UNCHANGED uiVars
    /\ UNCHANGED apiVars
    /\ UNCHANGED portalVars
    /\ UNCHANGED certVars
    /\ UNCHANGED <<job, info, embed>>
    /\ UNCHANGED ens
    /\ UNCHANGED cap
    /\ UNCHANGED shellVars
    /\ UNCHANGED hist

\* The install handler enters its registration loop.
InstallRegister ==
    /\ reg.pc = "idle"
    /\ reg.signer = "frame"
    /\ reg' = settle(reg, loop_from([i \in DOMAIN reg.bundles |-> Future("skipped", <<>>)],
                                    reg.bundles, reg.single_profile, reg.signer, 1))
    /\ UNCHANGED <<pc, origin, keychain>>
    /\ UNCHANGED loginVars
    /\ UNCHANGED uiVars
    /\ UNCHANGED apiVars
    /\ UNCHANGED portalVars
    /\ UNCHANGED certVars
    /\ UNCHANGED <<job, info, embed>>
    /\ UNCHANGED ens
    /\ UNCHANGED cap
    /\ UNCHANGED shellVars
    /\ UNCHANGED hist

\* The reply to the request sub-bundle i awaits. An error, or no app id
\* from qh_get_app_id, fails the registration; otherwise the portal has
\* done what was asked and the next request of the sub-bundle goes out, or
\* its profile is kept (register_bundle also writes it into the
\* sub-bundle) and, in the install handler, the loop moves on.
PortalReply ==
    /\ reg.pc = "running"
    /\ \E i \in DOMAIN reg.fut, reply \in {"ok", "err", "none"}, write_ok \in BOOLEAN :
          LET f == reg.fut[i]
              todo == requests(reg.bundles[i], reg.signer)
              k == Len(f.log)
          IN  /\ f.st = "in flight"
              /\ reply = "none" => f.log[k] = "qh_get_app_id"
              /\ ~write_ok => (reply = "ok" /\ k = Len(todo) /\ reg.signer = "utils")
              /\ IF reply # "ok"
                 THEN reg' = settle(reg, [reg.fut EXCEPT ![i] = Future("failed", f.log)])
                 ELSE LET acked == [reg EXCEPT !.portal = @ \cup {<<i, k>>}]
                      IN  IF k < Len(todo)
                          THEN reg' = settle(acked, [reg.fut EXCEPT ![i] =
                                         Future("in flight", Append(f.log, todo[k + 1]))])
                          ELSE IF reg.signer = "utils"
                          THEN IF write_ok
                               THEN reg' = settle([acked EXCEPT !.embedded = @ \cup {i}],
                                              [reg.fut EXCEPT ![i] = Future("ok", f.log)])
                               ELSE reg' = settle(acked,
                                              [reg.fut EXCEPT ![i] = Future("failed", f.log)])
                          ELSE reg' = settle(acked,
                                         loop_from([reg.fut EXCEPT ![i] = Future("ok", f.log)],
                                                   reg.bundles, reg.single_profile,
                                                   reg.signer, i + 1))
    /\ UNCHANGED <<pc, origin, keychain>>
    /\ UNCHANGED loginVars
    /\ UNCHANGED uiVars
    /\ UNCHANGED apiVars
    /\ UNCHANGED portalVars
    /\ UNCHANGED certVars
    /\ UNCHANGED <<job, info, embed>>
    /\ UNCHANGED ens
    /\ UNCHANGED cap
    /\ UNCHANGED shellVars
    /\ UNCHANGED hist

RegNext ==
    \/ RegisterBundle
    \/ InstallRegister
    \/ PortalReply

RegSpec == RegInit /\ [][RegNext]_vars

\* ------------------------------------------------ ensure operations
EnsureInit ==
    /\ SessionInit
    /\ spd.ids
    /\ task = [k \in Tasks |-> IdleTask]
    /\ cert = NoIdentity
    /\ job = NoJob
    /\ info = NoRewrite
    /\ embed = NoSigning
    /\ reg = NoRegistration
    /\ \E signer \in {"utils", "frame"}, portal \in {<<>>, <<Record(1, "group.a")>>} :
          ens = [NoEnsures EXCEPT !.signer = signer, !.portal = portal]
    /\ cap = NoCapabilities
    /\ hist = NoHistory
    /\ ani = NoAnisette
    /\ dev = NoDevices
    /\ mq = NoMessages

EnsureUnchanged ==
    /\ UNCHANGED <<pc, origin, keychain>>
    /\ UNCHANGED loginVars
    /\ UNCHANGED uiVars
    /\ UNCHANGED apiVars
    /\ UNCHANGED portalVars
    /\ UNCHANGED certVars
    /\ UNCHANGED <<job, info, embed, reg>>
    /\ UNCHANGED cap
    /\ UNCHANGED shellVars
    /\ UNCHANGED hist

\* qh_ensure_app_id / qh_ensure_app_group is called: the list request of
\* qh_get_... goes out.
EnsureCall(c) ==
    /\ ens.call[c].pc \in {"idle", "done"}
    /\ ens.call[c].calls < MaxCalls
    /\ ens.signer = "frame" =>
          \A d \in Callers : ens.call[d].pc \in {"idle", "done"}
    /\ \E identifier \in Identifiers :
          ens' = [ens EXCEPT !.call[c] =
                     [NoEnsure EXCEPT !.pc = "listing", !.identifier = identifier,
                                      !.calls = ens.call[c].calls + 1,
                                      !.after = identifier \in ens.ensured]]
    /\ EnsureUnchanged

\* The reply to the list request: an error ends the call; a record with
\* the identifier is returned; without one the add request goes out.
ListReply(c) ==
    /\ ens.call[c].pc = "listing"
    /\ \E ok \in BOOLEAN :
          LET call == ens.call[c]
              found == find_identifier(ens.portal, call.identifier)
          IN  ens' =
                 IF ~ok
                 THEN [ens EXCEPT !.call[c] = [call EXCEPT !.pc = "done", !.res = "err"]]
                 ELSE IF found # NoRecord
                 THEN [ens EXCEPT !.call[c] = [call EXCEPT !.pc = "done", !.res = "ok",
                                                 !.seen = ens.portal,
                                                 !.returned = found],
                                  !.ensured = @ \cup {call.identifier}]
                 ELSE [ens EXCEPT !.call[c] = [call EXCEPT !.pc = "adding",
                                                 !.seen = ens.portal,
                                                 !.adds = @ + 1]]
    /\ EnsureUnchanged

\* The reply to the add request: the portal made the record and returns
\* it, or answers with an error.
AddReply(c) ==
    /\ ens.call[c].pc = "adding"
    /\ \E ok \in BOOLEAN :
          LET call == ens.call[c]
              new == Record(Len(ens.portal) + 1, call.identifier)
          IN  ens' =
                 IF ~ok
                 THEN [ens EXCEPT !.call[c] = [call EXCEPT !.pc = "done", !.res = "err"]]
                 ELSE [ens EXCEPT !.portal = Append(@, new),
                                  !.call[c] = [call EXCEPT !.pc = "done", !.res = "ok",
                                                 !.returned = new],
                                  !.ensured = @ \cup {call.identifier}]
    /\ EnsureUnchanged

EnsureNext ==
    \/ \E c \in Callers : EnsureCall(c)
    \/ \E c \in Callers : ListReply(c)
    \/ \E c \in Callers : AddReply(c)

EnsureSpec == EnsureInit /\ [][EnsureNext]_vars

\* ------------------------------------------------ capability steps
\* The binary of the sub-bundle and the catalog the portal holds.
CapInit ==
    /\ SessionInit
    /\ spd.ids
    /\ task = [k \in Tasks |-> IdleTask]
    /\ cert = NoIdentity
    /\ job = NoJob
    /\ info = NoRewrite
    /\ embed = NoSigning
    /\ reg = NoRegistration
    /\ ens = NoEnsures
    /\ \E entitlements \in EntitlementKeys,
          capabilities \in UNION { [1..n -> Catalog] : n \in 0..MaxCatalog } :
          cap = [NoCapabilities EXCEPT !.entitlements = entitlements,
                                       !.capabilities = capabilities]
    /\ hist = NoHistory
    /\ ani = NoAnisette
    /\ dev = NoDevices
    /\ mq = NoMessages

CapUnchanged ==
    /\ UNCHANGED <<pc, origin, keychain>>
    /\ UNCHANGED loginVars
    /\ UNCHANGED uiVars
    /\ UNCHANGED apiVars
    /\ UNCHANGED portalVars
    /\ UNCHANGED certVars
    /\ UNCHANGED <<job, info, embed, reg, ens>>
    /\ UNCHANGED shellVars
    /\ UNCHANGED hist

\* v1_list_capabilities returns: the catalog or an error.
ListCapabilities ==
    /\ cap.pc = "idle"
    /\ \E ok \in BOOLEAN :
          cap' = IF ok THEN [cap EXCEPT !.pc = "app_id"]
                 ELSE [cap EXCEPT !.pc = "done", !.res = Err(Error("Other", 0, <<>>))]
    /\ CapUnchanged

\* qh_get_app_id returns: without the app id the registration fails; with
\* it the capabilities of the binary are computed and, if there are any,
\* v1_update_app_id is sent.
GetAppId ==
    /\ cap.pc = "app_id"
    /\ \E reply \in {"ok", "none", "err"} :
          LET caps == capabilities_for_entitlements(cap.entitlements, cap.capabilities)
              groups == app_groups_for_entitlements(cap.entitlements, <<"group.a">>)
          IN  cap' = IF reply # "ok"
                     THEN [cap EXCEPT !.pc = "done", !.res = Err(Error("Other", 0, <<>>))]
                     ELSE IF caps.some
                     THEN [cap EXCEPT !.pc = "updating", !.caps = caps,
                                      !.app_groups = groups, !.updates = @ + 1]
                     ELSE [cap EXCEPT !.pc = "done", !.caps = caps, !.app_groups = groups]
    /\ CapUnchanged

\* v1_update_app_id returns.
UpdateAppId ==
    /\ cap.pc = "updating"
    /\ \E ok \in BOOLEAN :
          cap' = [cap EXCEPT !.pc = "done",
                             !.res = IF ok THEN Unit ELSE Err(Error("Other", 0, <<>>))]
    /\ CapUnchanged

CapNext ==
    \/ ListCapabilities
    \/ GetAppId
    \/ UpdateAppId

CapSpec == CapInit /\ [][CapNext]_vars

\* ------------------------------------------------ callers of get_anisette
AnisetteInit ==
    /\ SessionInit
    /\ spd.ids
    /\ task = [k \in Tasks |-> IdleTask]
    /\ cert = NoIdentity
    /\ job = NoJob
    /\ info = NoRewrite
    /\ embed = NoSigning
    /\ reg = NoRegistration
    /\ ens = NoEnsures
    /\ cap = NoCapabilities
    /\ hist = NoHistory
    /\ \E stale \in BOOLEAN :
          ani = [NoAnisette EXCEPT !.data = AnisetteData(0, stale)]
    /\ dev = NoDevices
    /\ mq = NoMessages

AnisetteUnchanged ==
    /\ UNCHANGED <<pc, origin, keychain>>
    /\ UNCHANGED loginVars
    /\ UNCHANGED uiVars
    /\ UNCHANGED apiVars
    /\ UNCHANGED portalVars
    /\ UNCHANGED certVars
    /\ UNCHANGED signerVars
    /\ UNCHANGED <<dev, mq>>
    /\ UNCHANGED hist

\* A task calls get_anisette on its clone of the Account, which shares the
\* one Arc<Mutex<AnisetteData>>.
GetAnisette(c) ==
    /\ ani.call[c].pc \in {"idle", "done"}
    /\ ani.call[c].calls < MaxCalls
    /\ ani' = [ani EXCEPT !.call[c].pc = "locking", !.call[c].calls = @ + 1]
    /\ AnisetteUnchanged

\* lock().await completes; the data is checked under the lock and either
\* the refresh is started, the lock kept across its await, or the data is
\* cloned and the guard dropped.
Lock(c) ==
    /\ ani.call[c].pc = "locking"
    /\ lock_ready(ani.holder)
    /\ ani' = IF needs_refresh(ani.data)
              THEN [ani EXCEPT !.holder = c, !.call[c].pc = "refreshing"]
              ELSE [ani EXCEPT !.call[c].pc = "done", !.call[c].got = ani.data]
    /\ AnisetteUnchanged

\* refresh().await returns: the new data replaces the old and is cloned, or
\* unwrap panics; either way the guard is dropped.
RefreshReply(c) ==
    /\ ani.call[c].pc = "refreshing"
    /\ \E ok \in BOOLEAN :
          LET r == refresh(ani.data, ok)
          IN  ani' = IF r.res.kind = "Ok"
                     THEN [ani EXCEPT !.data = r.data, !.holder = "",
                                      !.call[c].pc = "done", !.call[c].got = r.data]
                     ELSE [ani EXCEPT !.holder = "", !.call[c].pc = "panicked"]
    /\ AnisetteUnchanged

\* Time passes and the data goes stale.
Expire ==
    /\ ~ani.data.stale
    /\ ani' = [ani EXCEPT !.data.stale = TRUE]
    /\ AnisetteUnchanged

AnisetteNext ==
    \/ \E c \in AnisetteCallers : GetAnisette(c)
    \/ \E c \in AnisetteCallers : Lock(c)
    \/ \E c \in AnisetteCallers : RefreshReply(c)
    \/ Expire

AnisetteSpec == AnisetteInit /\ [][AnisetteNext]_vars

\* ------------------------------------------------ the device list events
DeviceInit ==
    /\ Init
    /\ origin = "auto" /\ ~keychain

DeviceUnchanged ==
    /\ UNCHANGED <<pc, origin, keychain>>
    /\ UNCHANGED loginVars
    /\ UNCHANGED uiVars
    /\ UNCHANGED apiVars
    /\ UNCHANGED portalVars
    /\ UNCHANGED certVars
    /\ UNCHANGED signerVars
    /\ UNCHANGED <<ani, mq>>
    /\ UNCHANGED hist

\* handle_message(DeviceConnected(device))
DeviceConnected(device_id) ==
    /\ dev' = IF position(dev.usbmuxd_device_list, device_id) = 0
              THEN LET pushed == usbmuxd_picker_rebuild_contents(
                                    [dev EXCEPT !.usbmuxd_device_list =
                                                    Append(@, device_id)])
                   IN  IF Len(pushed.usbmuxd_device_list) = 1
                       THEN usbmuxd_picker_select_item(pushed, device_id)
                       ELSE usbmuxd_picker_reconcile_selection(pushed)
              ELSE dev
    /\ DeviceUnchanged

\* handle_message(DeviceDisconnected(device_id))
DeviceDisconnected(device_id) ==
    /\ LET index == position(dev.usbmuxd_device_list, device_id)
       IN  dev' = IF index # 0
                  THEN usbmuxd_picker_reconcile_selection(
                          usbmuxd_picker_rebuild_contents(
                             [dev EXCEPT !.usbmuxd_device_list = remove(@, index)]))
                  ELSE dev
    /\ DeviceUnchanged

\* The user picks item i of the picker: on_selection_changed.
SelectionChanged(i) ==
    /\ i \in DOMAIN dev.usbmuxd_device_list
    /\ dev' = [dev EXCEPT !.selection = i,
                          !.usbmuxd_selected_device_id =
                              Some(to_string(dev.usbmuxd_device_list[i]))]
    /\ DeviceUnchanged

DeviceNext ==
    \/ \E device_id \in 1..MaxDevices : DeviceConnected(device_id)
    \/ \E device_id \in 1..MaxDevices : DeviceDisconnected(device_id)
    \/ \E i \in 1..MaxDevices : SelectionChanged(i)

DeviceSpec == DeviceInit /\ [][DeviceNext]_vars

\* ------------------------------------------------ the idle-time message pump
MessagesInit ==
    /\ Init
    /\ origin = "auto" /\ ~keychain

MessagesUnchanged ==
    /\ UNCHANGED <<pc, origin, keychain>>
    /\ UNCHANGED loginVars
    /\ UNCHANGED uiVars
    /\ UNCHANGED apiVars
    /\ UNCHANGED portalVars
    /\ UNCHANGED certVars
    /\ UNCHANGED signerVars
    /\ UNCHANGED <<ani, dev>>
    /\ UNCHANGED hist

\* Some thread sends a message to the UI.
Send ==
    /\ mq.senders
    /\ mq.sent < MaxSent
    /\ mq' = [mq EXCEPT !.sent = @ + 1, !.queue = Append(@, mq.sent + 1)]
    /\ MessagesUnchanged

\* The last sender is dropped.
Disconnect ==
    /\ mq.senders
    /\ mq' = [mq EXCEPT !.senders = FALSE]
    /\ MessagesUnchanged

\* The idle event calls process_messages.
ProcessMessages ==
    /\ mq.pc = "idle"
    /\ mq.passes < MaxCalls
    /\ mq' = [mq EXCEPT !.pc = "loop", !.i = 0, !.processed_count = 0,
                        !.first = Len(mq.handled), !.found = "",
                        !.returned = FALSE, !.passes = @ + 1]
    /\ MessagesUnchanged

\* One iteration of `for _ in 0..10`: try_recv, then handle_message or
\* return false.
TryRecv ==
    /\ mq.pc = "loop"
    /\ mq.i < BatchSize
    /\ LET r == try_recv(mq.queue, mq.senders)
       IN  mq' = IF r.kind = "Ok"
                 THEN [mq EXCEPT !.queue = Tail(@), !.i = @ + 1,
                                 !.processed_count = @ + 1,
                                 !.handled = Append(@, r.message)]
                 ELSE [mq EXCEPT !.pc = "idle", !.found = r.kind,
                                 !.returned = FALSE]
    /\ MessagesUnchanged

\* After the loop: has_more is returned to request_more.
ReturnHasMore ==
    /\ mq.pc = "loop"
    /\ mq.i = BatchSize
    /\ mq' = [mq EXCEPT !.pc = "idle", !.returned = has_more(mq.processed_count)]
    /\ MessagesUnchanged

MessagesNext ==
    \/ Send
    \/ Disconnect
    \/ ProcessMessages
    \/ TryRecv
    \/ ReturnHasMore

MessagesSpec == MessagesInit /\ [][MessagesNext]_vars



\* ----------------------------------------------------------------- spec
Next ==
    \/ StartLogin
    \/ GetCredentials
    \/ LoginEmailPassInit
    \/ LoginEmailPassComplete
    \/ LoopSend2faToDevices
    \/ LoopSendSms2faToDevices
    \/ RequestTfaCode
    \/ ReceiveTfaCode
    \/ LoopVerify2fa
    \/ LoopVerifySms2fa
    \/ LoopExit
    \/ ReportLogin
    \/ UiAwaitingTwoFactorCode
    \/ UiAccountLogin
    \/ UiAccountDeleted
    \/ UiError
    \/ UiShutdown
    \/ ApiSend2faToDevices
    \/ ApiSendSms2faToDevices
    \/ ApiVerify2fa
    \/ ApiVerifySms2fa
    \/ ApiGetAppToken
    \/ ApiSendRequest

Spec == Init /\ [][Next]_vars

\* ================================================================ claims
Last(q) == q[Len(q)]

\* login has returned to its caller (it did not die of a panic).
Returned == pc \in {"returned", "done"}

\* C1: on the SMS path the login states occur in the order NeedsSMS2FA,
\* NeedsSMS2FAVerification, NeedsLogin, LoggedIn: the SMS request yields
\* NeedsSMS2FAVerification carrying the phone context of the request, the
\* verification request carries that same phone context and the entered
\* code and yields NeedsLogin, and the password round repeated from
\* NeedsLogin yields LoggedIn when the server asks for nothing more.
C1_SmsPathOrder ==
    /\ \A i \in 1..Len(trace) :
          /\ trace[i] = "NeedsSMS2FAVerification" => i > 1 /\ trace[i - 1] = "NeedsSMS2FA"
          /\ i < Len(trace) /\ trace[i] = "NeedsSMS2FA"
                => trace[i + 1] = "NeedsSMS2FAVerification"
          /\ i < Len(trace) /\ trace[i] = "NeedsSMS2FAVerification"
                => trace[i + 1] = "NeedsLogin"
    /\ state.tag = "NeedsSMS2FAVerification"
          => /\ state.body = [phone |-> SmsPhoneId, mode |-> "sms", code |-> ""]
             /\ \E i \in 1..Len(reqs) :
                   /\ reqs[i] = [op |-> "phone", phone |-> state.body.phone, code |-> ""]
                   /\ \A j \in (i + 1)..Len(reqs) : reqs[j].op = "securitycode"
    /\ \A i \in 1..Len(reqs) :
          reqs[i].op = "securitycode"
             => /\ i > 1 /\ reqs[i - 1].op = "phone"
                /\ reqs[i].phone = reqs[i - 1].phone
                /\ reqs[i].code \in Codes
    /\ ( /\ pc = "loop" /\ lastResp.kind = "complete" /\ lastResp.auKind # "string"
         /\ Len(trace) = 4 /\ trace[2] = "NeedsSMS2FAVerification" )
          => trace = <<"NeedsSMS2FA", "NeedsSMS2FAVerification", "NeedsLogin", "LoggedIn">>

\* C1 witness: a login that went through the whole SMS path and returned.
C1_Witness ==
    /\ trace = <<"NeedsSMS2FA", "NeedsSMS2FAVerification", "NeedsLogin", "LoggedIn">>
    /\ loginResult.kind = "Ok"
    /\ \E i \in 1..Len(reqs) : reqs[i].op = "securitycode" /\ reqs[i].code = "123456"

\* C2: a successful password round returns NeedsDevice2FA for the marker
\* "trustedDeviceSecondaryAuth", NeedsSMS2FA for "secondaryAuth",
\* NeedsExtraStep(tag) for any other nonempty marker, and LoggedIn exactly
\* when there is no marker (Status.au is absent or is not a string).
C2_SecondaryAuthMarker ==
    (pc = "loop" /\ lastResp.kind = "complete")
       => /\ lastResp.auKind = "string" /\ lastResp.au = "trustedDeviceSecondaryAuth"
                => state = [tag |-> "NeedsDevice2FA", step |-> "", body |-> NoBody]
          /\ lastResp.auKind = "string" /\ lastResp.au = "secondaryAuth"
                => state = [tag |-> "NeedsSMS2FA", step |-> "", body |-> NoBody]
          /\ ( /\ lastResp.auKind = "string" /\ lastResp.au # ""
               /\ lastResp.au \notin {"trustedDeviceSecondaryAuth", "secondaryAuth"} )
                => state = [tag |-> "NeedsExtraStep", step |-> lastResp.au, body |-> NoBody]
          /\ state.tag = "LoggedIn" <=> lastResp.auKind # "string"

\* C2 witness: a round answered with an unknown marker.
C2_Witness ==
    /\ pc = "loop"
    /\ lastResp.kind = "complete"
    /\ lastResp.au = "repair"
    /\ state.tag = "NeedsExtraStep"

\* C3: on the trusted-device path the push request yields
\* Needs2FAVerification and the verification yields NeedsLogin, never
\* LoggedIn: LoggedIn is only ever the result of a password round, and
\* after a verification it takes a further init/complete exchange.
C3_DevicePathOrder ==
    /\ \A i \in 1..Len(trace) :
          /\ trace[i] = "Needs2FAVerification" => i > 1 /\ trace[i - 1] = "NeedsDevice2FA"
          /\ i < Len(trace) /\ trace[i] = "NeedsDevice2FA"
                => trace[i + 1] = "Needs2FAVerification"
          /\ i < Len(trace) /\ trace[i] = "Needs2FAVerification"
                => trace[i + 1] = "NeedsLogin"
          /\ trace[i] = "LoggedIn" => i = 1 \/ trace[i - 1] = "NeedsLogin"
    /\ state.tag = "LoggedIn" => Last(reqs).op = "complete"
    /\ \A i \in 1..Len(reqs) :
          reqs[i].op = "validate"
             => /\ i > 1 /\ reqs[i - 1].op = "trusteddevice"
                /\ i < Len(reqs) => reqs[i + 1].op = "init"
    /\ state.tag = "LoggedIn" /\ Len(trace) > 1 => rounds >= 2

\* C3 witness: a login that went through the whole trusted-device path.
C3_Witness ==
    /\ trace = <<"NeedsDevice2FA", "Needs2FAVerification", "NeedsLogin", "LoggedIn">>
    /\ loginResult.kind = "Ok"
    /\ rounds = 2

\* C4 as claimed: login returns a session only in state LoggedIn, and a
\* login that ends in state NeedsExtraStep(tag) returns the unsupported-step
\* error carrying the tag.
C4_SessionOnlyWhenLoggedIn ==
    /\ loginResult.kind = "Ok" => state.tag = "LoggedIn"
    /\ Returned /\ state.tag = "NeedsExtraStep"
          => loginResult = [kind |-> "Err", state |-> NoState,
                            err |-> [type |-> "ExtraStep", code |-> 0,
                                     msg |-> <<state.step>>]]

\* C4 amended: login returns a session only in state LoggedIn, or in state
\* NeedsExtraStep(tag) when the session dictionary holds a
\* com.apple.gs.idms.pet token; in state NeedsExtraStep(tag) with no "t"
\* dictionary in the session dictionary it returns the unsupported-step
\* error carrying the tag, and no session.
C4_SessionOnlyWhenLoggedInOrPet ==
    /\ loginResult.kind = "Ok"
          => \/ state.tag = "LoggedIn"
             \/ state.tag = "NeedsExtraStep" /\ spd.t = "pet"
    /\ Returned /\ state.tag = "NeedsExtraStep" /\ spd.t \in {"absent", "notdict"}
          => loginResult = [kind |-> "Err", state |-> NoState,
                            err |-> [type |-> "ExtraStep", code |-> 0,
                                     msg |-> <<state.step>>]]
    /\ Returned /\ state.tag = "NeedsExtraStep" /\ spd.t = "pet"
          => loginResult.kind = "Ok"

\* C4 witness: a login ended by the unsupported step "repair".
C4_Witness ==
    /\ Returned
    /\ state = [tag |-> "NeedsExtraStep", step |-> "repair", body |-> NoBody]
    /\ loginResult.kind = "Err"
    /\ loginResult.err.msg = <<"repair">>

\* The LoginState in which a two-factor step is the matching transition.
MatchingState(op) ==
    CASE op = "send_2fa_to_devices" -> "NeedsDevice2FA"
      [] op = "verify_2fa" -> "Needs2FAVerification"
      [] op = "send_sms_2fa_to_devices" -> "NeedsSMS2FA"
      [] op = "verify_sms_2fa" -> "NeedsSMS2FAVerification"
      [] OTHER -> ""

\* C5: a two-factor step invoked while the current LoginState is not the
\* one matching the step is rejected: it sends no request to the server and
\* yields no new LoginState.
C5_WrongStateRejected ==
    /\ lastCall.op # "" /\ lastCall.before # MatchingState(lastCall.op)
          => lastCall.res.kind # "Ok" /\ lastCall.sent = 0
    /\ MatchingState(apiResult.op) # "" /\ state.tag # MatchingState(apiResult.op)
          => apiResult.res.kind # "Ok" /\ apiResult.sent = <<>>

\* C6: Account.spd changes only in the step that completes a password round
\* successfully, which stores the dictionary that round derived; every
\* other step (a failed round, a two-factor step, an app-token or portal
\* request) leaves it as it was; a returned session has it populated.
C6_SpdWrittenOnlyByRound ==
    [][ /\ spd' # spd => pc = "round_complete" /\ pc' = "loop"
        /\ pc = "round_complete" /\ pc' = "loop" => spd'.some /\ spd'.gen = rounds
        /\ loginResult'.kind = "Ok" => spd'.some ]_vars

\* C6 witness: the second password round failed and the dictionary of the
\* first is still in place.
C6_Witness ==
    /\ rounds = 2
    /\ lastResp.kind = "complete"
    /\ loginResult.kind = "Err"
    /\ spd.some /\ spd.gen = 1

Malformed(r) ==
    \/ r.Response = "missing"
    \/ ~r.hasEc
    \/ r.ec # 0 /\ ~r.hasEm
    \/ r.kind = "init" /\ r.ec = 0 /\ r.fields # "ok"
    \/ r.kind = "complete" /\ r.ec = 0
          /\ (r.m2 # "ok" \/ r.spdData # "ok" \/ ~r.StatusDict)

\* C8: a server proof that fails verification, or a response with missing
\* or wrongly typed fields, makes login return an error; no server response
\* makes login or a call on the session panic.
C8_NoPanic ==
    /\ loginResult.kind # "Panic"
    /\ apiResult.res.kind # "Panic"
    /\ ( /\ lastResp.kind \in {"init", "complete"} /\ lastResp.net = "ok"
         /\ lastResp.plist /\ Malformed(lastResp) )
          => loginResult.kind = "Err"

\* C9: a provider that fails with a message ends the login with an
\* AuthSrpWithMessage error that contains the message; no session is
\* returned and no request follows (none at all after a failed credential
\* provider; after a failed code provider the last request is the one that
\* asked for the code).
C9_ProviderFailureEndsLogin ==
    /\ provFail.who # ""
          => /\ Returned
             /\ loginResult.kind = "Err"
             /\ loginResult.err.type = "AuthSrpWithMessage"
             /\ \E i \in 1..Len(loginResult.err.msg) :
                   loginResult.err.msg[i] = provFail.msg
             /\ apiResult.op = ""
    /\ provFail.who = "cred" => reqs = <<>>
    /\ provFail.who = "tfa" => Last(reqs).op \in {"trusteddevice", "phone"}

\* C9 witness: the code dialog was cancelled and the login has ended.
C9_Witness ==
    /\ provFail = [who |-> "tfa", msg |-> "2FA cancelled"]
    /\ pc = "done"

\* C10: once the wait for the code is cancelled (the dialog returned an
\* error, or the UI dropped its end of the reply channel), the login thread
\* does not stay blocked in recv, no session is returned and no
\* AccountLogin message reaches the UI.
C10_CancelEndsLogin ==
    cancelled # ""
       => /\ pc = "tfa_wait" => ENABLED ReceiveTfaCode
          /\ loginResult.kind # "Ok"
          /\ ~accountLogin
          /\ \A i \in 1..Len(uiQueue) : uiQueue[i].type # "AccountLogin"

\* C11: whenever the authenticated decryption of the encrypted token fails
\* (a ciphertext or tag byte was altered), get_app_token returns an error
\* and no token, and a portal call that asked for the token sends nothing.
C11_DecryptFailureIsFatal ==
    \A k \in Tasks :
       ( /\ task[k].tokenResp.kind = "apptokens"
         /\ task[k].tokenResp.et \in {"tampered", "tamperedtag"} )
          => /\ task[k].pc = "done"
             /\ task[k].result.kind = "Err"
             /\ ~task[k].token.some
             /\ task[k].wire = [method |-> "", override |-> ""]

\* C11 witness: get_app_token answered with a token whose tag was altered.
C11_Witness ==
    \E k \in Tasks :
       /\ task[k].api = "get_app_token"
       /\ task[k].tokenResp.et = "tamperedtag"
       /\ task[k].result.kind = "Err"
       /\ task[k].result.err.type = "AuthSrpWithMessage"

\* C12: the AppToken returned by get_app_token(service) holds no token of
\* a service other than the requested one.
C12_OnlyRequestedToken ==
    \A k \in Tasks :
       task[k].token.some
          => \A e \in task[k].token.app_tokens : e.service = task[k].app

\* C13: of the portal requests running on one session, at most one has an
\* app-token request in flight at any time.
C13_SingleRefreshInFlight ==
    Cardinality({k \in Tasks : task[k].api \in {"qh", "v1"} /\ task[k].pc = "token"}) <= 1

\* C14: a legacy call returns DeveloperSession(code, message) exactly when
\* the reply's result code is nonzero; a JSON:API call returns
\* DeveloperSession(status, detail) of the first element exactly when the
\* reply's errors array is non-empty; otherwise the call succeeds.
C14_PortalErrorFunnel ==
    \A k \in Tasks :
       LET t == task[k]
           first == t.reply.errors.items[1]
           read == t.reply.kind = "portal" /\ t.reply.net = "ok" /\ t.reply.plist
       IN  /\ t.result.err.type = "DeveloperSession" => read
           /\ (t.api = "qh" /\ read /\ t.reply.meta)
                 => /\ t.reply.resultCode # 0
                         => /\ t.result.kind = "Err"
                            /\ t.result.err.type = "DeveloperSession"
                            /\ t.result.err.code = t.reply.resultCode
                            /\ t.reply.hasString
                                  => t.result.err.msg = <<t.reply.resultString>>
                    /\ t.reply.resultCode = 0 => t.result.kind = "Ok"
           /\ (t.api = "v1" /\ read)
                 => IF t.reply.errors.kind = "array" /\ t.reply.errors.items # <<>>
                    THEN /\ t.result.kind = "Err"
                         /\ t.result.err.type = "DeveloperSession"
                         /\ first.status = "409" => t.result.err.code = 409
                         /\ first.status = "403" => t.result.err.code = 403
                         /\ first.hasDetail => t.result.err.msg = <<first.detail>>
                    ELSE t.result.kind = "Ok"

\* C14 witness: a JSON:API reply with two errors, reported by its first.
C14_Witness ==
    \E k \in Tasks :
       /\ task[k].api = "v1"
       /\ Len(task[k].reply.errors.items) = 2
       /\ task[k].reply.errors.items[1].status = "403"
       /\ task[k].result.kind = "Err"
       /\ task[k].result.err.code = 403

C16_UnderlyingErrorVerbatim ==
    \A k \in Tasks :
       ( /\ task[k].api \in {"qh", "v1"}
         /\ task[k].tokenResp.kind = "apptokens"
         /\ task[k].tokenResp.ec # 0 /\ task[k].tokenResp.hasEm )
          => /\ task[k].result.kind = "Err"
             /\ task[k].result.err.code = task[k].tokenResp.ec
             /\ task[k].result.err.msg = <<task[k].tokenResp.em>>

\* The portal requests in the record of a call.
PortalSteps(log) == { i \in 1..Len(log) : log[i].op \in {"list", "submit", "revoke"} }

\* C17: in CertificateIdentity::new the private key in use is in the key
\* file before the first portal request of the call goes out (a key
\* generated in the call is written first), and once a key file exists no
\* step generates a key or changes the file, in this call or a later one.
C17_KeyWrittenFirstAndKept ==
    [][ /\ cert.keyFile.exists =>
              /\ cert'.keyFile = cert.keyFile
              /\ cert'.generated = cert.generated
        /\ PortalSteps(cert'.log) # {} =>
              /\ cert'.keyFile = to_pkcs8_pem(cert'.key)
              /\ \A i \in Steps(cert'.log, "write_key") :
                    \A j \in PortalSteps(cert'.log) : i < j ]_vars

\* A second call, made after a call that generated a key, wrote it and
\* failed, has loaded that key and sent its first portal request.
C17_Witness ==
    /\ cert.calls = 2
    /\ cert.prev = "Err"
    /\ cert.pc = "find"
    /\ cert.generated = 1
    /\ cert.key = GeneratedKey(1)
    /\ cert.keyFile = to_pkcs8_pem(GeneratedKey(1))

\* The CSRs submitted and the revocations that succeeded in a call.
Submitted(log) == Cardinality(Steps(log, "submit"))
RevokedOk(log) == Cardinality({ i \in Steps(log, "revoke") : log[i].st = "ok" })

C19_AtMostOneRetry ==
    /\ Submitted(cert.log) <= 2
    /\ Cardinality(Steps(cert.log, "revoke")) <= 1

\* C20: a step that failed for another reason than the quota is the last
\* step of its call, and the call has returned an error.
C20_FailuresEndTheCall ==
    \A i \in 1..Len(cert.log) :
       cert.log[i].st = "failed" =>
          /\ i = Len(cert.log)
          /\ cert.pc = "done"
          /\ cert.result.kind = "Err"

C28_RevokesOwnLabelBeforeRetry ==
    [][ /\ \A i \in 1..Len(cert.portal) :
              (\A j \in 1..Len(cert'.portal) : cert'.portal[j] # cert.portal[i]) =>
                 /\ cert.pc = "revoke"
                 /\ cert.portal[i].serial_number = cert.target
                 /\ cert.portal[i].machine_name = MachineName
        /\ (cert'.pc = "revoke" /\ cert.pc # "revoke") =>
              \E i \in 1..Len(cert.portal) :
                 /\ cert.portal[i].serial_number = cert'.target
                 /\ cert.portal[i].machine_name = MachineName
        /\ \A i \in Steps(cert'.log, "submit") :
              (\E j \in Steps(cert'.log, "submit") : j < i) =>
                 cert'.log[i - 1] = Ev("revoke", "ok")
        /\ cert'.result = Err(CertificateError("Too many certificates")) =>
              /\ cert'.portal = cert.portal
              /\ \A i \in 1..Len(cert.portal) :
                    cert.portal[i].machine_name # MachineName
              /\ cert'.log[Len(cert'.log)].op # "revoke" ]_vars

\* After a quota failure the certificate of this machine was revoked, not
\* the other machine's certificate listed before it, and the CSR was
\* submitted again.
C28_Witness ==
    /\ cert.pc = "submit"
    /\ Submitted(cert.log) = 2
    /\ RevokedOk(cert.log) = 1
    /\ cert.calls = 1
    /\ Len(cert.portal) = 1
    /\ cert.portal[1].machine_name = OtherMachine
    /\ cert.portal[1].serial_number = 1

\* The directories of a list of bundles.
Dirs(bundles) == { bundles[i].dir : i \in 1..Len(bundles) }

Occurrences(s, from) ==
    { i \in 1..(Len(s) - Len(from) + 1) : SubSeq(s, i, i + Len(from) - 1) = from }

RECURSIVE Concat(_)
Concat(ss) == IF ss = <<>> THEN <<>> ELSE Head(ss) \o Concat(Tail(ss))

\* t is s with every occurrence of `from` replaced by `to`: some
\* occurrences that do not overlap, leaving out only occurrences that
\* overlap an earlier chosen one, are replaced, and every character
\* outside them is kept in place.
Replaced(s, t, from, to) ==
    \E cuts \in SUBSET Occurrences(s, from) :
       /\ \A i, j \in cuts : i < j => i + Len(from) <= j
       /\ \A i \in Occurrences(s, from) \ cuts :
             \E j \in cuts : j < i /\ i < j + Len(from)
       /\ t = Concat([p \in 1..Len(s) |->
                        IF p \in cuts THEN to
                        ELSE IF \E j \in cuts : j < p /\ p < j + Len(from) THEN <<>>
                        ELSE <<s[p]>>])

RewrittenKeys ==
    {"CFBundleIdentifier", "WKCompanionAppBundleIdentifier", "WKAppBundleIdentifier"}

\* C25: after set_matching_identifier each of the three identifiers that
\* is present holds its old value with every occurrence of the old
\* identifier replaced by the new one, an absent one is still absent, the
\* other key is as it was, and the file was written only if one of the
\* three values contained the old identifier.
C25_LiteralRewrite ==
    /\ info.plist.CFBundleName = info.before.CFBundleName
    /\ info.writes > 0 =>
          \E k \in RewrittenKeys :
             /\ info.before[k].some
             /\ Occurrences(info.before[k].s, info.identifier) # {}
    /\ info.writes = 0 => info.plist = info.before
    /\ (info.pc = "done" /\ info.custom.some) =>
          \A k \in RewrittenKeys :
             /\ info.plist[k].some = info.before[k].some
             /\ Replaced(info.before[k].s, info.plist[k].s, info.identifier,
                         info.custom.s)

\* The identifier a.b was rewritten to a.b.T (the new one contains the old
\* one): the bundle identifier "aba" became "ab.Ta" and the companion
\* identifier "baba" became "bab.Ta".
C25_Witness ==
    /\ info.pc = "done"
    /\ info.identifier = <<"a", "b">>
    /\ info.custom = Some(<<"a", "b", ".", "T">>)
    /\ info.before.CFBundleIdentifier = Some(<<"a", "b", "a">>)
    /\ info.plist.CFBundleIdentifier = Some(<<"a", "b", ".", "T", "a">>)
    /\ info.plist.WKCompanionAppBundleIdentifier = Some(<<"b", "a", "b", ".", "T", "a">>)
    /\ info.writes = 1

\* The profile the claim names for a bundle: the one whose application
\* identifier is the bundle's identifier, else the first.
NamedProfile ==
    LET ps == embed.provisioning_files
        m == { i \in DOMAIN ps : embed.bundle.identifier.some
                                    /\ bundle_id(ps[i]) = embed.bundle.identifier }
    IN  IF m = {} THEN ps[1] ELSE ps[MinOf(m)]

\* No string of the entitlements holds a wildcard.
NoWildcard(entitlements) ==
    \A k \in DOMAIN entitlements :
       LET v == entitlements[k]
       IN  IF IsStr(v) THEN \A i \in DOMAIN v.string : v.string[i] # "*"
           ELSE \A j \in DOMAIN v.array :
                   \A i \in DOMAIN v.array[j] : v.array[j][i] # "*"

\* C23: after a signing that returned Ok, an App or AppExtension bundle
\* holds the named profile as its embedded profile and is signed with that
\* profile's entitlements with the wildcards replaced by its identifier; a
\* Framework or Unknown bundle holds no profile and is signed with the
\* empty entitlements.
C23_ProfileAndEntitlements ==
    (embed.pc = "done" /\ embed.out.res = Unit) =>
       IF embed.bundle.type \in {"App", "AppExtension"}
       THEN /\ embed.provisioning_files # <<>>
            /\ embed.out.embedded = SomeData(NamedProfile.provision_data)
            /\ embed.out.entitlements.set
            /\ embed.bundle.identifier.some =>
                  embed.out.entitlements.dict =
                     replace_wildcard_in_entitlements(NamedProfile.entitlements,
                                                      embed.bundle.identifier.s)
       ELSE /\ ~embed.out.embedded.some
            /\ embed.out.entitlements = SetTo(EmptyDict)

\* C24: the embedded.mobileprovision written into the bundle carries the
\* entitlements of the profile as they are after the in-memory mutations.
C24_EmbeddedReflectsMutations ==
    (embed.pc = "done" /\ embed.out.embedded.some) =>
       extract_entitlements(extract_plist_from_file(embed.out.embedded.data))
          = embed.out.prov.p.entitlements

\* C27: at most one portal request of a registration is in flight.
C27_OneRequestInFlight ==
    Cardinality({ i \in DOMAIN reg.fut : reg.fut[i].st = "in flight" }) <= 1

\* C29: every sub-bundle a portal request was sent for is an App or an
\* AppExtension, and with single-profile embedding it is the root bundle.
C29_OnlyAppsAndOnlyRootWhenSingle ==
    \A i \in DOMAIN reg.fut :
       reg.fut[i].log # <<>> =>
          /\ reg.bundles[i].type \in {"App", "AppExtension"}
          /\ reg.single_profile => i = Len(reg.bundles)

\* With single-profile embedding a registration finished that sent
\* requests for the root while an AppExtension was nested in it.
C29_Witness ==
    /\ reg.pc = "done"
    /\ reg.res = Unit
    /\ reg.single_profile
    /\ Len(reg.bundles) = 3
    /\ reg.bundles[1].type = "AppExtension"
    /\ reg.bundles[2].type = "Framework"
    /\ reg.fut[3].log # <<>>
    /\ reg.provisioning_files = <<3>>

\* The stage of a portal request.
Stage(op) ==
    CASE op = "qh_ensure_app_id" -> 1
      [] op \in {"v1_list_capabilities", "qh_get_app_id", "v1_update_app_id"} -> 2
      [] op \in {"qh_ensure_app_group", "qh_assign_app_group"} -> 3
      [] op = "qh_get_profile" -> 4

\* C30: the requests of a sub-bundle go out in the order app identifier,
\* capabilities, app groups, profile, beginning with the app identifier and
\* each after the portal has done the one before; a sub-bundle whose step
\* failed sent nothing after it; and a registration that failed kept what
\* the portal had done and left the signer's profile list as it was.
C30_StepsInOrderAndNoRollback ==
    /\ \A i \in DOMAIN reg.fut :
          LET log == reg.fut[i].log
          IN  /\ \A a, b \in DOMAIN log : a < b => Stage(log[a]) <= Stage(log[b])
              /\ log # <<>> => log[1] = "qh_ensure_app_id"
              /\ \A a \in DOMAIN log : a < Len(log) => <<i, a>> \in reg.portal
              /\ \A a \in DOMAIN log :
                    log[a] = "qh_get_profile" =>
                       /\ a = Len(log)
                       /\ reg.bundles[i].app_groups.s # <<>> =>
                             \E b \in 1..(a - 1) : log[b] = "qh_assign_app_group"
                       /\ reg.bundles[i].caps =>
                             \E b \in 1..(a - 1) : log[b] = "v1_update_app_id"
    /\ (reg.pc = "done" /\ reg.res # Unit) =>
          /\ reg.provisioning_files = <<0>>
          /\ \E i \in DOMAIN reg.fut : reg.fut[i].st = "failed"
          /\ \A i \in DOMAIN reg.fut : reg.fut[i].st # "in flight"
    /\ (reg.pc = "done" /\ reg.res = Unit) =>
          \A i \in DOMAIN reg.fut :
             reg.fut[i].log # <<>> =>
                reg.fut[i].log[Len(reg.fut[i].log)] = "qh_get_profile"

\* A registration failed at the assignment of the app group of the root
\* after the nested AppExtension had its profile: the portal keeps the app
\* identifiers and the group, and the signer its old list.
C30_Witness ==
    /\ reg.pc = "done"
    /\ reg.res # Unit
    /\ Len(reg.bundles) = 2
    /\ reg.fut[1].st = "ok"
    /\ reg.fut[2].st = "failed"
    /\ reg.fut[2].log # <<>>
    /\ reg.fut[2].log[Len(reg.fut[2].log)] = "qh_assign_app_group"
    /\ <<2, 1>> \in reg.portal
    /\ reg.provisioning_files = <<0>>

\* C31: an ensure call sends an add request only when the list it got
\* holds no record with its identifier, and a call that begins after the
\* identifier was ensured with success sends no add request and, when it
\* succeeds, returns a record of the portal with that identifier.
C31_EnsureIdempotent ==
    \A c \in Callers :
       LET call == ens.call[c]
       IN  /\ call.adds <= 1
           /\ call.adds = 1 =>
                 \A i \in DOMAIN call.seen : call.seen[i].identifier # call.identifier
           /\ call.after =>
                 /\ call.adds = 0
                 /\ call.res = "ok" =>
                       /\ call.returned.identifier = call.identifier
                       /\ \E i \in DOMAIN ens.portal : ens.portal[i] = call.returned

\* A caller ensured group.b twice: the first call added the record, the
\* second found it and returned it without an add request.
C31_Witness ==
    /\ ens.call["f1"].calls = 2
    /\ ens.call["f1"].identifier = "group.b"
    /\ ens.call["f1"].after
    /\ ens.call["f1"].res = "ok"
    /\ ens.call["f1"].adds = 0
    /\ ens.call["f1"].returned \in { ens.portal[i] : i \in DOMAIN ens.portal }

\* C34: two registrations never both await the reply to an add request
\* for the same group, each having seen the group absent, and the portal
\* never holds two records of one group.
C34_GroupAddedAtMostOnce ==
    /\ \A c, d \in Callers :
          (c # d /\ ens.call[c].pc = "adding" /\ ens.call[d].pc = "adding")
             => ens.call[c].identifier # ens.call[d].identifier
    /\ \A i, j \in DOMAIN ens.portal :
          ens.portal[i].identifier = ens.portal[j].identifier => i = j

\* The catalog positions of the capabilities that declare a key the binary
\* carries.
Declaring ==
    { p \in DOMAIN cap.capabilities :
         /\ cap.capabilities[p].entitlements.some
         /\ cap.entitlements.some
         /\ \E i \in DOMAIN cap.capabilities[p].entitlements.s :
               cap.capabilities[p].entitlements.s[i] \in cap.entitlements.s }

\* C32: once the capabilities are computed, the update was sent exactly
\* when some capability of the catalog declares a key of the binary, and
\* the ids sent are the ids of those capabilities, one per catalog
\* position, in catalog order.
C32_EnableSetFromCatalog ==
    (cap.pc \in {"updating", "done"} /\ cap.res = Unit) =>
       /\ cap.updates = (IF Declaring = {} THEN 0 ELSE 1)
       /\ cap.caps.some = (Declaring # {})
       /\ cap.caps.some =>
             \E f \in [DOMAIN cap.caps.s -> Declaring] :
                /\ \A a, b \in DOMAIN cap.caps.s : a < b => f[a] < f[b]
                /\ \A p \in Declaring : \E a \in DOMAIN cap.caps.s : f[a] = p
                /\ \A a \in DOMAIN cap.caps.s : cap.caps.s[a] = cap.capabilities[f[a]].id

\* An update was sent for APP_GROUPS alone, the second capability of a
\* catalog whose first capability declares a key the binary lacks.
C32_Witness ==
    /\ cap.pc = "done"
    /\ cap.res = Unit
    /\ cap.updates = 1
    /\ Len(cap.capabilities) = 2
    /\ cap.capabilities[1].id = "PUSH_NOTIFICATIONS"
    /\ cap.capabilities[1].entitlements = Some(<<"aps-environment">>)
    /\ cap.capabilities[2].entitlements =
          Some(<<"aps-environment", "com.apple.security.application-groups">>)
    /\ cap.caps = Some(<<"APP_GROUPS">>)

\* C33: the bundle of a binary without embedded entitlements is merged,
\* embedded and signed without an entitlements error.
C33_NoEntitlementsIsEmpty ==
    (embed.pc = "done" /\ embed.bundle.executable.kind = "unsigned") =>
       embed.out.res # Err(Error("ProvisioningEntitlementsUnknown", 0, <<>>))

\* ------------------------------------------------------------------- C35
\* Visits of the login loop to a state in which the code is asked for.
TfaVisits ==
    Cardinality({ i \in 1..Len(trace) :
                    trace[i] \in {"Needs2FAVerification", "NeedsSMS2FAVerification"} })

\* The two-factor code provider is invoked only in Needs2FAVerification or
\* NeedsSMS2FAVerification, once per visit: every visit but one the loop
\* has just arrived at has had its one invocation.
TfaOncePerVisit ==
    /\ hist.at \subseteq {"Needs2FAVerification", "NeedsSMS2FAVerification"}
    /\ hist.tfa = TfaVisits
                  - (IF pc = "loop" /\ state.tag \in {"Needs2FAVerification",
                                                      "NeedsSMS2FAVerification"}
                     THEN 1 ELSE 0)

\* C35 as stated: during one login the credential provider is invoked
\* exactly once, and the two-factor code provider only in
\* Needs2FAVerification or NeedsSMS2FAVerification, once per visit.
C35_ProvidersOncePerVisit ==
    /\ loginResult # Pending => hist.cred = 1
    /\ rounds >= 1 => hist.cred = 1
    /\ TfaOncePerVisit

\* C35 amended: the credential provider is invoked at most once, and exactly
\* once unless building the session fails before it is asked (then not at
\* all, and nothing is sent); a repeated password round does not ask again;
\* the two-factor code provider is invoked only in Needs2FAVerification or
\* NeedsSMS2FAVerification, once per visit.
C35_ProvidersOnceUnlessSetupFails ==
    /\ hist.cred <= 1
    /\ loginResult # Pending
          => \/ hist.cred = 1
             \/ /\ hist.cred = 0
                /\ loginResult = Err(Error("Anisette", 0, <<>>))
                /\ reqs = <<>> /\ hist.tfa = 0
    /\ rounds >= 1 => hist.cred = 1
    /\ TfaOncePerVisit

\* A login that asked for a code, repeated the password round and returned
\* a session.
C35_Witness ==
    /\ loginResult.kind = "Ok" /\ rounds = 2
    /\ hist.cred = 1 /\ hist.tfa = 1

\* ------------------------------------------------------------------- C38
\* C38: every two-factor code request the UI's handler has processed was
\* answered exactly once on its reply channel, with the entered code or an
\* error, so a login thread waiting for the code whose request has been
\* processed has its answer at hand and is released.
C38_ProcessedRequestAnswered ==
    /\ hist.answered = hist.processed
    /\ Len(replyQueue) <= 1
    /\ hist.processed <= hist.tfa
    /\ pc = "tfa_wait" /\ hist.processed = hist.tfa
          => /\ replyQueue # <<>>
             /\ ENABLED ReceiveTfaCode

\* The dialog was cancelled: the waiting thread has an error to receive.
C38_Witness ==
    /\ pc = "tfa_wait" /\ hist.processed = 1 /\ hist.tfa = 1
    /\ replyQueue # <<>> /\ ~Head(replyQueue).ok

\* ------------------------------------------------------------------- C39
\* The step in which set_credentials is called.
WritesCredentials == ~hist.written /\ hist.written'

\* An AccountLogin message is in the UI's queue after the step.
AccountLoginQueued ==
    \E i \in 1..Len(uiQueue') : uiQueue'[i].type = "AccountLogin"

\* C39 as stated: credentials are written to the keychain only after the
\* login flow has returned an authenticated session and the AccountLogin
\* message has been sent; a failed or cancelled login writes none.
C39_WrittenAfterLoginSent ==
    /\ [][WritesCredentials
             => /\ loginResult.kind = "Ok" /\ pc = "returned"
                /\ AccountLoginQueued]_vars
    /\ [](loginResult.kind # "Ok" => ~hist.written)

\* C39 amended: credentials are written only after the login flow has
\* returned an authenticated session to the login dialog's thread and that
\* thread has tried to send AccountLogin, which reaches the UI unless its
\* receiver is gone; a failed or cancelled login, and the automatic login,
\* write none.
C39_WrittenAfterLoginReturned ==
    /\ [][WritesCredentials
             => /\ loginResult.kind = "Ok" /\ pc = "returned" /\ origin = "dialog"
                /\ uiAlive => AccountLoginQueued
                /\ ~uiAlive => uiQueue' = uiQueue]_vars
    /\ [](loginResult.kind # "Ok" \/ origin = "auto" => ~hist.written)

\* The credentials were written and the UI has the session.
C39_Witness ==
    hist.written /\ keychain /\ accountLogin /\ origin = "dialog"

\* ------------------------------------------------------------------- C36
\* The callers whose refresh is running.
Refreshing == { c \in AnisetteCallers : ani.call[c].pc = "refreshing" }

\* C36: concurrent callers of get_anisette never run two overlapping
\* refreshes: a refresh runs under the lock and only on stale data, and
\* every caller receives data that was not stale when it was checked, or
\* replaced, under that lock.
C36_OneRefreshUnderLock ==
    /\ Cardinality(Refreshing) <= 1
    /\ \A c \in Refreshing : ani.holder = c /\ needs_refresh(ani.data)
    /\ ani.holder # "" => ani.holder \in Refreshing
    /\ \A c \in AnisetteCallers :
          ani.call[c].pc = "done" => ~needs_refresh(ani.call[c].got)

\* One caller refreshes while the other waits for the lock, having been
\* served before.
C36_Witness ==
    /\ ani.call["a1"].pc = "refreshing"
    /\ ani.call["a2"].pc = "locking" /\ ani.call["a2"].calls = 2
    /\ ani.data.gen = 1

\* ------------------------------------------------------------------- C37
\* No two devices of the list have the same device id.
NoDuplicateDevices ==
    \A i, j \in DOMAIN dev.usbmuxd_device_list :
       dev.usbmuxd_device_list[i] = dev.usbmuxd_device_list[j] => i = j

\* C37: after any sequence of device-connected, device-disconnected and
\* picker-selection events the device list has no two devices with the same
\* id, and the selected device id is absent or the id of a device in the
\* list.
C37_SelectedDeviceIsListed ==
    /\ NoDuplicateDevices
    /\ dev.usbmuxd_selected_device_id.some
          => \E i \in DOMAIN dev.usbmuxd_device_list :
                to_string(dev.usbmuxd_device_list[i])
                   = dev.usbmuxd_selected_device_id.s

\* ------------------------------------------------------------------- C40
\* A call of process_messages has returned.
CallReturned == mq.pc = "idle" /\ mq.passes > 0

\* C40: one call of process_messages handles at most 10 queued messages, in
\* the order they were sent; it returns true exactly when it handled 10, and
\* false as soon as it finds the queue empty or disconnected.
C40_AtMostTenInOrder ==
    /\ mq.processed_count <= 10
    /\ mq.processed_count = Len(mq.handled) - mq.first
    /\ \A k \in DOMAIN mq.handled : mq.handled[k] = k
    /\ CallReturned => (mq.returned <=> mq.processed_count = 10)
    /\ mq.found # "" => /\ CallReturned /\ ~mq.returned
                        /\ mq.processed_count = mq.i /\ mq.i < 10
    /\ CallReturned /\ mq.found = "" => mq.i = 10

\* A call handled ten messages, asked for another pass, and left the
\* eleventh queued.
C40_Witness ==
    /\ CallReturned /\ mq.returned /\ mq.processed_count = 10
    /\ mq.queue = <<11>>

====
